---------------------------- MODULE Spec2Model ----------------------------
(***************************************************************************)
(* Win32 joystick backend of SFML (src/SFML/Window/Win32/JoystickImpl.cpp, *)
(* first implementation in the file, lines 1-757).                         *)
(*                                                                         *)
(* The registry `joysticks` is a table of Count slots.  Four handlers run  *)
(* on the dispatch thread, one at a time: dispatchDeviceConnected,         *)
(* dispatchDeviceRemoved, dispatchRawInput and dispatchXInput.  Each is one *)
(* action of the model.  What the platform returns to a handler (device    *)
(* path, product string, HID descriptor, report contents, XInput           *)
(* snapshots, failing queries) is an input of the action.                  *)
(*                                                                         *)
(* The consumer queries run on another thread, without any lock.  They  *)
(* are single actions where a claim is about what they return, and are     *)
(* split, like dispatchRawInput, into steps in the specification that      *)
(* interleaves the two threads.                                            *)
(*                                                                         *)
(* Axis values are C++ floats; the model keeps them as exact fractions      *)
(* [n, d] with d > 0, so float rounding is not represented.                *)
(***************************************************************************)
EXTENDS Integers, Sequences, FiniteSets

VARIABLES
    joysticks,          \* the registry: 0..Count-1 -> slot
    usageSizeDataChunk, \* scratch buffer HidP_GetUsages writes the active usages to
    ev,                 \* the event handled last: its kind, its inputs and the
                        \* slot the handler found for it (history)
    fileHandles,        \* the device file handles that are open
    inflight,           \* the call of dispatchRawInput that has not returned yet
    reader              \* the consumer thread inside update()

vars == <<joysticks, usageSizeDataChunk, ev, fileHandles, inflight, reader>>

---------------------------------------------------------------------------
(* Sizes.                                                                  *)

\* Joystick::Count, the number of slots (8 in SFML, scaled down).
Count == 2

\* Joystick::ButtonCount, the length of m_state.buttons (32 in SFML, scaled down).
ButtonCount == 16

\* Joystick::AxisCount; getAxis accepts exactly the ordinals 0..7.
AxisCount == 8

\* Device handles the platform hands out (one more than there are slots).
MaxToken == 3

Tokens == 1 .. MaxToken

\* nullptr, the m_lastDeviceHandle of a free slot.
NullHandle == 0

\* 0xFFFFFFFF, the m_xInputIndex of a slot that has none.
NoXInputIndex == -1

\* ev.slot when the handler found no slot: the value the loop index has when
\* the loop over the Count slots runs to its end.
NoSlot == Count

\* The indexes dispatchXInput polls.
XInputIndexes == 0 .. 3

Min(a, b) == IF a <= b THEN a ELSE b

---------------------------------------------------------------------------
(* Axis values as fractions.                                               *)

Frac(n, d) == IF d < 0 THEN [n |-> -n, d |-> -d] ELSE [n |-> n, d |-> d]

Zero == [n |-> 0, d |-> 1]

FracLeq(a, b) == a.n * b.d <= b.n * a.d

FromInt(k) == [n |-> k, d |-> 1]

InRange(v, lo, hi) == FracLeq(FromInt(lo), v) /\ FracLeq(v, FromInt(hi))

---------------------------------------------------------------------------
(* getAxis: ordinal -> axis.  The axes are named by their ordinal; an      *)
(* ordinal outside 0..7 throws std::out_of_range.                          *)

AxisNames == <<"X", "Y", "Z", "R", "U", "V", "PovX", "PovY">>

getAxisThrows(index) == index \notin 0 .. 7

getAxis(index) == index

---------------------------------------------------------------------------
(* Device paths are sequences of characters.                               *)

npos == -1

length(s) == Len(s)

\* std::wstring::find: position (from 0) of the first occurrence, or npos.
MatchAt(s, pat, pos) ==
    /\ pos + Len(pat) <= Len(s)
    /\ \A k \in 1 .. Len(pat) : s[pos + k] = pat[k]

find(s, pat) ==
    IF \E pos \in 0 .. Len(s) : MatchAt(s, pat, pos)
    THEN CHOOSE pos \in 0 .. Len(s) :
            /\ MatchAt(s, pat, pos)
            /\ \A q \in 0 .. (pos - 1) : ~MatchAt(s, pat, q)
    ELSE npos

\* A substr that starts one character early.
substrFromUnderscore(s, pos, n) == SubSeq(s, pos, pos + n - 1)

\* std::wstring::substr(pos, n), for pos + n <= length.
substr(s, pos, n) == SubSeq(s, pos + 1, pos + n)

UpperHex == <<"0", "1", "2", "3", "4", "5", "6", "7", "8", "9", "A", "B", "C", "D", "E", "F">>
LowerHex == <<"0", "1", "2", "3", "4", "5", "6", "7", "8", "9", "a", "b", "c", "d", "e", "f">>

IsHexDigit(c) == \E k \in 1 .. 16 : UpperHex[k] = c \/ LowerHex[k] = c

HexValue(c) == (CHOOSE k \in 1 .. 16 : UpperHex[k] = c \/ LowerHex[k] = c) - 1

IsSpace(c) == c = " "

\* First position at or after `from` (1-based) that holds no white space.
RECURSIVE SkipSpaces(_, _)
SkipSpaces(s, from) ==
    IF from <= Len(s) /\ IsSpace(s[from]) THEN SkipSpaces(s, from + 1) ELSE from

RECURSIVE HexRun(_, _, _)
\* Reads hex digits from position `from`; returns <<value, next position>>.
HexRun(s, from, acc) ==
    IF from <= Len(s) /\ IsHexDigit(s[from])
    THEN HexRun(s, from + 1, acc * 16 + HexValue(s[from]))
    ELSE <<acc, from>>

\* std::wcstoul(str, &endptr, 16): skips white space, takes an optional sign
\* and an optional 0x prefix, then the hex digits.  Returns the value and
\* endptr as a 1-based position; with no digits, the value is 0 and endptr is
\* the start of the string.  A negated non-zero value v wraps to the unsigned
\* long 2^32 - v, which is held here as -v.  The strings converted here have
\* 4 characters, so ERANGE cannot occur.
wcstoul(s) ==
    LET Result(neg, p3, run) ==
            IF run[2] = p3 THEN [value |-> 0, endptr |-> 1]
            ELSE [value |-> IF neg THEN -run[1] ELSE run[1], endptr |-> run[2]]
        Digits(neg, p3) == Result(neg, p3, HexRun(s, p3, 0))
        Prefix(neg, p2) ==
            Digits(neg, IF /\ p2 + 2 <= Len(s)
                           /\ s[p2] = "0"
                           /\ s[p2 + 1] \in {"x", "X"}
                           /\ IsHexDigit(s[p2 + 2])
                        THEN p2 + 2 ELSE p2)
        Sign(p1) ==
            IF p1 <= Len(s) /\ s[p1] \in {"-", "+"}
            THEN Prefix(s[p1] = "-", p1 + 1)
            ELSE Prefix(FALSE, p1)
    IN  Sign(SkipSpaces(s, 1))

\* The test after each conversion, on the result r of converting a string of
\* n characters: errno != 0 || *endptr != L'\0' || v > 0xFFFF.
ConversionFails(r, n) == r.endptr # n + 1 \/ r.value < 0 \/ r.value > 65535

VID_ == <<"V", "I", "D", "_">>
PID_ == <<"P", "I", "D", "_">>
IG_  == <<"I", "G", "_">>

\* extractVidPid(devicePath, isXInput): the optional result and the value
\* the out-parameter isXInput has on return (it is false on entry).
extractVidPid(devicePath) ==
    LET none(x) == [ok |-> FALSE, vid |-> 0, pid |-> 0, isXInput |-> x]
        \* Lines 139-163, on the two converted substrings.
        Converted(vid, pid, isXInput) ==
            IF ConversionFails(vid, 4) THEN none(isXInput)
            ELSE IF ConversionFails(pid, 4) THEN none(isXInput)
            ELSE [ok |-> TRUE, vid |-> vid.value, pid |-> pid.value,
                  isXInput |-> isXInput]
        \* Lines 121-136, on the two positions found.
        Located(vidPos, pidPos) ==
            IF vidPos = npos THEN none(FALSE)
            ELSE IF vidPos + 4 + 4 > length(devicePath) THEN none(FALSE)
            ELSE IF pidPos = npos THEN none(FALSE)
            ELSE IF pidPos + 4 + 4 > length(devicePath) THEN none(FALSE)
            ELSE Converted(wcstoul(substr(devicePath, vidPos + 4, 4)),
                           wcstoul(substr(devicePath, pidPos + 4, 4)),
                           find(devicePath, IG_) # npos)
    IN  Located(find(devicePath, VID_), find(devicePath, PID_))

---------------------------------------------------------------------------
(* The slot: the member data of JoystickImpl.                              *)

Buttons == 0 .. (ButtonCount - 1)
Axes    == 0 .. (AxisCount - 1)
Slots   == 0 .. (Count - 1)

\* JoystickCaps{}: no buttons, no axis present.
DefaultCaps == [buttonCount |-> 0, axes |-> {}]

\* Joystick::Identification{}; the default name is held as the empty string.
DefaultIdentification == [name |-> "", vendorId |-> 0, productId |-> 0]

\* JoystickState{}: disconnected, all buttons released, all axes 0.
DefaultState ==
    [connected |-> FALSE,
     buttons   |-> [b \in Buttons |-> FALSE],
     axes      |-> [a \in Axes |-> Zero]]

\* JoystickImpl{}: the default member initializers.
DefaultJoystickImpl ==
    [m_index              |-> 0,
     m_useXInput          |-> FALSE,
     m_xInputIndex        |-> NoXInputIndex,
     m_xInputPacketNumber |-> 0,
     m_lastDeviceHandle   |-> NullHandle,
     m_caps               |-> DefaultCaps,
     m_identification     |-> DefaultIdentification,
     m_state              |-> DefaultState]

\* joysticks.size().  The registry is a function on 0 .. size - 1.
size(js) == Cardinality(DOMAIN js)

\* initialize(): Count slots, slot i with m_index = i; the scratch buffer is
\* zero-filled by resize.  Only its first ButtonCount entries are ever read.
InitialJoysticks == [i \in Slots |-> [DefaultJoystickImpl EXCEPT !.m_index = i]]

InitialChunk == [k \in Buttons |-> 0]

---------------------------------------------------------------------------
(* dispatchDeviceConnected.                                                *)

\* An object that is given the capabilities of an XInput device whatever
\* the device is.
NewJoystickImplCapsForAll(js, deviceHandle, devicePath, nameOk, name) ==
    LET j0 == [DefaultJoystickImpl EXCEPT
                  !.m_lastDeviceHandle = deviceHandle,
                  !.m_index = size(js),
                  !.m_state.connected = FALSE]
        Identified(r) ==
            IF ~r.ok THEN [j0 EXCEPT !.m_identification.name = name]
            ELSE [j0 EXCEPT !.m_identification =
                                 [name |-> name, vendorId |-> r.vid, productId |-> r.pid],
                            !.m_useXInput = r.isXInput]
        WithXInputCaps(j) ==
            [j EXCEPT !.m_caps = [buttonCount |-> 14,
                                  axes |-> {getAxis(i) : i \in 0 .. 5}],
                      !.m_state.connected = j.m_useXInput]
    IN  WithXInputCaps(IF ~nameOk THEN j0 ELSE Identified(extractVidPid(devicePath)))

\* An object that leaves it to the first tick to connect an XInput device.
NewJoystickImplConnectsOnTick(js, deviceHandle, devicePath, nameOk, name) ==
    LET j0 == [DefaultJoystickImpl EXCEPT
                  !.m_lastDeviceHandle = deviceHandle,
                  !.m_index = size(js),
                  !.m_state.connected = FALSE]
        Identified(r) ==
            IF ~r.ok THEN [j0 EXCEPT !.m_identification.name = name]
            ELSE [j0 EXCEPT !.m_identification =
                                 [name |-> name, vendorId |-> r.vid, productId |-> r.pid],
                            !.m_useXInput = r.isXInput]
        WithXInputCaps(j) ==
            IF j.m_useXInput
            THEN [j EXCEPT !.m_caps = [buttonCount |-> 14,
                                       axes |-> {getAxis(i) : i \in 0 .. 5}]]
            ELSE j
    IN  WithXInputCaps(IF ~nameOk THEN j0 ELSE Identified(extractVidPid(devicePath)))

\* An object that takes the product string only when the path was parsed.
NewJoystickImplNamesParsedOnly(js, deviceHandle, devicePath, nameOk, name) ==
    LET j0 == [DefaultJoystickImpl EXCEPT
                  !.m_lastDeviceHandle = deviceHandle,
                  !.m_index = size(js),
                  !.m_state.connected = FALSE]
        Identified(r) ==
            IF ~r.ok THEN j0
            ELSE [j0 EXCEPT !.m_identification =
                                 [name |-> name, vendorId |-> r.vid, productId |-> r.pid],
                            !.m_useXInput = r.isXInput]
        WithXInputCaps(j) ==
            IF j.m_useXInput
            THEN [j EXCEPT !.m_caps = [buttonCount |-> 14,
                                       axes |-> {getAxis(i) : i \in 0 .. 5}],
                           !.m_state.connected = TRUE]
            ELSE j
    IN  WithXInputCaps(IF ~nameOk THEN j0 ELSE Identified(extractVidPid(devicePath)))

\* The object built before the registry is scanned (lines 172-216).
\* nameOk: HidD_GetProductString succeeded and returned `name`.
NewJoystickImpl(js, deviceHandle, devicePath, nameOk, name) ==
    LET j0 == [DefaultJoystickImpl EXCEPT
                  !.m_lastDeviceHandle = deviceHandle,
                  !.m_index = size(js),
                  !.m_state.connected = FALSE]
        \* Lines 191-198, on the result of extractVidPid.
        Identified(r) ==
            IF ~r.ok THEN [j0 EXCEPT !.m_identification.name = name]
            ELSE [j0 EXCEPT !.m_identification =
                                 [name |-> name, vendorId |-> r.vid, productId |-> r.pid],
                            !.m_useXInput = r.isXInput]
        \* Lines 203-216.
        WithXInputCaps(j) ==
            IF j.m_useXInput
            THEN [j EXCEPT !.m_caps = [buttonCount |-> 14,
                                       axes |-> {getAxis(i) : i \in 0 .. 5}],
                           !.m_state.connected = TRUE]
            ELSE j
    IN  WithXInputCaps(IF ~nameOk THEN j0 ELSE Identified(extractVidPid(devicePath)))

IsFree(j) == j.m_lastDeviceHandle = NullHandle

HasFree(js) == \E i \in DOMAIN js : IsFree(js[i])

\* A scan that keeps going and stops at the last free slot.
FirstFreeTakesLast(js) ==
    CHOOSE i \in DOMAIN js : IsFree(js[i]) /\ \A k \in (i + 1) .. (size(js) - 1) : ~IsFree(js[k])

\* The slot the scan of lines 219-233 stops at: the first free one.
FirstFree(js) ==
    CHOOSE i \in DOMAIN js : IsFree(js[i]) /\ \A k \in 0 .. (i - 1) : ~IsFree(js[k])

\* The value of the local xInputIndex when the scan reaches slot i: it has
\* been incremented for every slot 0..i whose m_xInputIndex is set.
ScanXInputIndex(js, i) == Cardinality({k \in 0 .. i : js[k].m_xInputIndex # NoXInputIndex})

\* A scan that, finding no free slot, stores the device in the last slot.
ConnectedEvictsWhenFull(js, deviceHandle, devicePath, nameOk, name) ==
    LET Stored(j, f) ==
            [js EXCEPT ![f] = IF j.m_useXInput
                              THEN [j EXCEPT !.m_xInputIndex = ScanXInputIndex(js, f)]
                              ELSE j]
    IN  Stored(NewJoystickImpl(js, deviceHandle, devicePath, nameOk, name),
               IF HasFree(js) THEN FirstFree(js) ELSE size(js) - 1)

\* The registry after the scan.
Connected(js, deviceHandle, devicePath, nameOk, name) ==
    LET Stored(j, f) ==
            [js EXCEPT ![f] = IF j.m_useXInput
                              THEN [j EXCEPT !.m_xInputIndex = ScanXInputIndex(js, f)]
                              ELSE j]
    IN  IF ~HasFree(js) THEN js
        ELSE Stored(NewJoystickImpl(js, deviceHandle, devicePath, nameOk, name), FirstFree(js))

\* INVALID_HANDLE_VALUE, what CreateFileW returns when it fails.
INVALID_HANDLE_VALUE == -1

\* CreateFileW (lines 182-188): the handle returned.  An open file handle is
\* named after the device it was opened for.
CreateFileW(deviceHandle, fileOk) ==
    IF fileOk THEN deviceHandle ELSE INVALID_HANDLE_VALUE

\* A handler that forgets the handle.
CloseHandleLeaks(open, fileHandle) == open

\* Lines 235-238: CloseHandle on a handle that is not null.
CloseHandle(open, fileHandle) ==
    IF fileHandle # NullHandle THEN open \ {fileHandle} ELSE open

\* fileOk: CreateFileW succeeded.  HidD_GetProductString fails on an invalid
\* file handle, so nameOk implies fileOk.
dispatchDeviceConnected(deviceHandle, devicePath, fileOk, nameOk, name) ==
    /\ joysticks' = Connected(joysticks, deviceHandle, devicePath, nameOk, name)
    /\ fileHandles' =
           CloseHandle(IF fileOk THEN fileHandles \cup {CreateFileW(deviceHandle, fileOk)}
                                 ELSE fileHandles,
                       CreateFileW(deviceHandle, fileOk))
    /\ ev' = [kind |-> "arrived", token |-> deviceHandle,
              slot |-> IF HasFree(joysticks) THEN FirstFree(joysticks) ELSE size(joysticks),
              arg |-> [path |-> devicePath, fileOk |-> fileOk,
                       nameOk |-> nameOk, name |-> name]]
    /\ UNCHANGED usageSizeDataChunk

---------------------------------------------------------------------------
(* dispatchDeviceRemoved.                                                  *)

Holds(js, deviceHandle) == \E i \in DOMAIN js : js[i].m_lastDeviceHandle = deviceHandle

\* The first slot holding the handle: where the loops of lines 244 and 291 stop.
FindSlot(js, deviceHandle) ==
    CHOOSE i \in DOMAIN js :
        /\ js[i].m_lastDeviceHandle = deviceHandle
        /\ \A k \in 0 .. (i - 1) : js[k].m_lastDeviceHandle # deviceHandle

\* A removal that releases the buttons and the axes and keeps the
\* connected flag.
RemovedKeepsConnected(js, deviceHandle) ==
    IF ~Holds(js, deviceHandle) THEN js
    ELSE [js EXCEPT ![FindSlot(js, deviceHandle)] =
                        [@ EXCEPT !.m_state = [@ EXCEPT !.buttons = DefaultState.buttons,
                                                         !.axes = DefaultState.axes],
                                  !.m_lastDeviceHandle = NullHandle,
                                  !.m_caps = DefaultCaps]]

\* A removal that, finding no slot with the handle, resets the last slot.
RemovedResetsLastWhenUnheld(js, deviceHandle) ==
    [js EXCEPT ![IF Holds(js, deviceHandle) THEN FindSlot(js, deviceHandle)
                                            ELSE size(js) - 1] =
                   [@ EXCEPT !.m_state = DefaultState,
                             !.m_lastDeviceHandle = NullHandle,
                             !.m_caps = DefaultCaps]]

\* A removal that forgets to reset the capabilities.
RemovedKeepsCaps(js, deviceHandle) ==
    IF ~Holds(js, deviceHandle) THEN js
    ELSE [js EXCEPT ![FindSlot(js, deviceHandle)] =
                        [@ EXCEPT !.m_state = DefaultState,
                                  !.m_lastDeviceHandle = NullHandle]]

Removed(js, deviceHandle) ==
    IF ~Holds(js, deviceHandle) THEN js
    ELSE [js EXCEPT ![FindSlot(js, deviceHandle)] =
                        [@ EXCEPT !.m_state = DefaultState,
                                  !.m_lastDeviceHandle = NullHandle,
                                  !.m_caps = DefaultCaps]]

dispatchDeviceRemoved(deviceHandle) ==
    /\ joysticks' = Removed(joysticks, deviceHandle)
    /\ ev' = [kind |-> "departed", token |-> deviceHandle,
              slot |-> IF Holds(joysticks, deviceHandle)
                       THEN FindSlot(joysticks, deviceHandle) ELSE size(joysticks),
              arg |-> <<>>]
    /\ UNCHANGED <<usageSizeDataChunk, fileHandles>>

---------------------------------------------------------------------------
(* dispatchRawInput.                                                       *)
(*                                                                         *)
(* desc   : what the preparsed data of the device declares,                *)
(*          [buttonCaps : Seq([UsageMin, UsageMax]),                       *)
(*           valueCaps  : Seq([BitSize, LogicalMin, LogicalMax])]          *)
(* report : what the report holds, per button range the ascending list of  *)
(*          the usages that are on, per value range the raw value,         *)
(*          [usages : Seq(Seq(usage)), values : Seq(raw)]                  *)
(* fail   : the query that fails in this call, [at, idx]; idx is the loop  *)
(*          index for the two queries made inside a loop, 0 otherwise.     *)

NoFailure == [at |-> "none", idx |-> 0]

FailAt(name, i) == [at |-> name, idx |-> i]

RECURSIVE Pow2(_)
Pow2(n) == IF n = 0 THEN 1 ELSE 2 * Pow2(n - 1)

\* expectedMax & static_cast<ULONG>(v), with expectedMax = (1UL << bitSize) - 1.
MaskBits(v, bitSize) == v % Pow2(bitSize)

\* HidP_GetUsages: the usages that are on are written to the front of the
\* buffer; the entries behind them keep what they held.
HidP_GetUsages(chunk, list) ==
    [k \in Buttons |-> IF k < Len(list) THEN list[k + 1] ELSE chunk[k]]

\* A clearing that leaves the first button of the range as it was.
ClearFromNext(buttons, startingButtonIndex) ==
    [b \in Buttons |-> IF b > startingButtonIndex THEN FALSE ELSE buttons[b]]

\* Lines 383-384: no button of the range is down.
ClearFrom(buttons, startingButtonIndex) ==
    [b \in Buttons |-> IF b >= startingButtonIndex THEN FALSE ELSE buttons[b]]

RECURSIVE ButtonLoop(_, _, _, _, _)
\* Lines 394-408: the walk over the buttons with a cursor into the buffer.
\* A negative difference cast to std::size_t equals no button index.
ButtonLoop(buttons, chunk, UsageMin, buttonIndex, rawInputButtonIndex) ==
    IF buttonIndex >= ButtonCount THEN buttons
    ELSE LET rawInputButton == chunk[rawInputButtonIndex] - UsageMin
         IN  IF rawInputButton = buttonIndex
             THEN ButtonLoop([buttons EXCEPT ![buttonIndex] = TRUE], chunk, UsageMin,
                             buttonIndex + 1, rawInputButtonIndex + 1)
             ELSE ButtonLoop([buttons EXCEPT ![buttonIndex] = FALSE], chunk, UsageMin,
                             buttonIndex + 1, rawInputButtonIndex)

RECURSIVE ButtonRanges(_, _, _, _, _)
\* Lines 358-412: the loop over the button ranges, from range i on.
\* st = [buttons, chunk, totalButtonsCount, startingButtonIndex, returned].
ButtonRanges(st, desc, report, fail, i) ==
    IF i >= Len(desc.buttonCaps) THEN st
    ELSE LET hButtonCaps == desc.buttonCaps[i + 1]
             buttonCount == hButtonCaps.UsageMax - hButtonCaps.UsageMin + 1
             total       == st.totalButtonsCount + buttonCount
         IN  IF fail = FailAt("HidP_GetUsages", i)
             THEN [st EXCEPT !.totalButtonsCount = total, !.returned = TRUE]
             ELSE LET list    == report.usages[i + 1]
                      chunk   == HidP_GetUsages(st.chunk, list)
                      buttons == IF Len(list) = 0
                                 THEN ClearFrom(st.buttons, st.startingButtonIndex)
                                 ELSE ButtonLoop(st.buttons, chunk, hButtonCaps.UsageMin,
                                                 st.startingButtonIndex, 0)
                  IN  ButtonRanges([buttons             |-> buttons,
                                    chunk               |-> chunk,
                                    totalButtonsCount   |-> total,
                                    startingButtonIndex |-> st.startingButtonIndex + total,
                                    returned            |-> FALSE],
                                   desc, report, fail, i + 1)

\* A rescaling that takes the bounds as the descriptor declares them.
OutputValueUnmasked(rawValue, valueCaps) ==
    LET logicalMax == valueCaps.LogicalMax
        logicalMin == valueCaps.LogicalMin
    IN  IF logicalMin # logicalMax
        THEN Frac(-100 * (logicalMax - logicalMin) + (rawValue - logicalMin) * 200,
                  logicalMax - logicalMin)
        ELSE Zero

\* A rescaling to a span of 100 instead of 200.
OutputValueHalfSpan(rawValue, valueCaps) ==
    LET logicalMax == MaskBits(valueCaps.LogicalMax, valueCaps.BitSize)
        logicalMin == MaskBits(valueCaps.LogicalMin, valueCaps.BitSize)
    IN  IF logicalMin # logicalMax
        THEN Frac(-100 * (logicalMax - logicalMin) + (rawValue - logicalMin) * 100,
                  logicalMax - logicalMin)
        ELSE Zero

\* Lines 441-461: the axis value of a raw value.
OutputValue(rawValue, valueCaps) ==
    LET logicalMax == MaskBits(valueCaps.LogicalMax, valueCaps.BitSize)
        logicalMin == MaskBits(valueCaps.LogicalMin, valueCaps.BitSize)
    IN  IF logicalMin # logicalMax
        THEN Frac(-100 * (logicalMax - logicalMin) + (rawValue - logicalMin) * 200,
                  logicalMax - logicalMin)
        ELSE Zero

RECURSIVE ValueLoopAllRanges(_, _, _, _, _, _)
\* A loop over every declared value range, range i going to the axis of
\* ordinal i modulo 8.
ValueLoopAllRanges(j, desc, report, fail, totalButtonsCount, i) ==
    IF ~(i < Len(desc.valueCaps)) THEN j
    ELSE IF fail = FailAt("HidP_GetUsageValue", i) THEN j
    ELSE ValueLoopAllRanges(
             [j EXCEPT !.m_state.axes[getAxis(i % AxisCount)] =
                           OutputValue(report.values[i + 1], desc.valueCaps[i + 1]),
                       !.m_caps.buttonCount = totalButtonsCount,
                       !.m_state.connected = TRUE],
             desc, report, fail, totalButtonsCount, i + 1)

RECURSIVE ValueLoop(_, _, _, _, _, _)
\* Lines 423-466: the loop over the value ranges, from range i on.
ValueLoop(j, desc, report, fail, totalButtonsCount, i) ==
    IF ~(i < Len(desc.valueCaps) /\ i < AxisCount) THEN j
    ELSE IF fail = FailAt("HidP_GetUsageValue", i) THEN j
    ELSE ValueLoop([j EXCEPT !.m_state.axes[getAxis(i)] =
                                  OutputValue(report.values[i + 1], desc.valueCaps[i + 1]),
                             !.m_caps.buttonCount = totalButtonsCount,
                             !.m_state.connected = TRUE],
                   desc, report, fail, totalButtonsCount, i + 1)

\* Lines 312-466: the report decoded into slot t.
RawInputDecode(js, chunk, t, desc, report, fail) ==
    LET same == [joysticks |-> js, chunk |-> chunk]
        targetJoystick == js[t]
    IN  IF fail.at \in {"GetRawInputDeviceInfoW", "HidP_GetCaps"} THEN same
        ELSE LET axes == Len(desc.valueCaps)
                 j1 == [targetJoystick EXCEPT !.m_caps.axes =
                           @ \cup {getAxis(i) : i \in 0 .. (Min(AxisCount, axes) - 1)}]
             IN
        IF fail.at = "HidP_GetButtonCaps" THEN [joysticks |-> [js EXCEPT ![t] = j1], chunk |-> chunk]
        ELSE LET st == ButtonRanges([buttons             |-> j1.m_state.buttons,
                                     chunk               |-> chunk,
                                     totalButtonsCount   |-> 0,
                                     startingButtonIndex |-> 0,
                                     returned            |-> FALSE],
                                    desc, report, fail, 0)
                 j2 == [j1 EXCEPT !.m_state.buttons = st.buttons]
             IN
        IF st.returned \/ fail.at = "HidP_GetValueCaps"
        THEN [joysticks |-> [js EXCEPT ![t] = j2], chunk |-> st.chunk]
        ELSE [joysticks |-> [js EXCEPT ![t] =
                                ValueLoop(j2, desc, report, fail, st.totalButtonsCount, 0)],
              chunk |-> st.chunk]

\* A handler that decodes the report whatever the backend of the slot.
RawInputDecodesPollBacked(js, chunk, deviceHandle, desc, report, fail) ==
    LET same == [joysticks |-> js, chunk |-> chunk]
    IN  IF fail.at \in {"GetRawInputData", "NotHid"} THEN same
        ELSE IF ~Holds(js, deviceHandle) THEN same
        ELSE RawInputDecode(js, chunk, FindSlot(js, deviceHandle), desc, report, fail)

\* The registry and the scratch buffer after the handler.
RawInput(js, chunk, deviceHandle, desc, report, fail) ==
    LET same == [joysticks |-> js, chunk |-> chunk]
    IN  IF fail.at \in {"GetRawInputData", "NotHid"} THEN same
        ELSE IF ~Holds(js, deviceHandle) THEN same
        ELSE IF js[FindSlot(js, deviceHandle)].m_useXInput THEN same
        ELSE RawInputDecode(js, chunk, FindSlot(js, deviceHandle), desc, report, fail)

dispatchRawInput(deviceHandle, desc, report, fail) ==
    LET r == RawInput(joysticks, usageSizeDataChunk, deviceHandle, desc, report, fail)
    IN  /\ joysticks' = r.joysticks
        /\ usageSizeDataChunk' = r.chunk
        /\ ev' = [kind |-> "report", token |-> deviceHandle,
                  slot |-> IF Holds(joysticks, deviceHandle)
                           THEN FindSlot(joysticks, deviceHandle) ELSE size(joysticks),
                  arg |-> [desc |-> desc, report |-> report, fail |-> fail]]
        /\ UNCHANGED fileHandles

---------------------------------------------------------------------------
(* dispatchXInput.                                                         *)
(*                                                                         *)
(* snaps : per XInput index what XInputGetState returns, a record with     *)
(*         present = FALSE for a non-zero result, else the XINPUT_STATE.   *)

\* A table with the masks of the two shoulder buttons exchanged.
XInputButtonMasksShouldersSwapped ==
    <<4096, 8192, 16384, 32768, 1, 2, 4, 8, 16, 32, 512, 256, 64, 128>>

\* The XINPUT_GAMEPAD_* masks in the order of buttons 0..13 (lines 495-508):
\* A, B, X, Y, DPAD_UP, DPAD_DOWN, DPAD_LEFT, DPAD_RIGHT, START, BACK,
\* LEFT_SHOULDER, RIGHT_SHOULDER, LEFT_THUMB, RIGHT_THUMB.
XInputButtonMasks ==
    <<4096, 8192, 16384, 32768, 1, 2, 4, 8, 16, 32, 256, 512, 64, 128>>

\* !!(wButtons & mask), for a mask of one bit.
BitSet(wButtons, mask) == (wButtons \div mask) % 2 = 1

\* XINPUT_GAMEPAD_LEFT_THUMB_DEADZONE, from Xinput.h.
XINPUT_GAMEPAD_LEFT_THUMB_DEADZONE == 7849

deadzone == XINPUT_GAMEPAD_LEFT_THUMB_DEADZONE \div 4

Abs(v) == IF v < 0 THEN -v ELSE v

\* A dead zone that takes in the threshold itself.
ThumbstickInclusive(v) == IF Abs(v) <= deadzone THEN Zero ELSE Frac(v * 100, 32767)

\* Lines 515-526: v / 327.670f, or 0 inside the dead zone.
Thumbstick(v) == IF Abs(v) < deadzone THEN Zero ELSE Frac(v * 100, 32767)

\* A trigger that reads 0 below XINPUT_GAMEPAD_TRIGGER_THRESHOLD.
TriggerWithThreshold(v) == IF v < 30 THEN Zero ELSE Frac(v * 100, 255)

\* Lines 530-531: v / 2.55f.
Trigger(v) == Frac(v * 100, 255)

\* Lines 491-531: the slot after a snapshot with a new packet number.
XInputDecode(joystick, xinputState) ==
    [joystick EXCEPT
        !.m_xInputPacketNumber = xinputState.dwPacketNumber,
        !.m_state.buttons = [b \in Buttons |->
            IF b < 14 THEN BitSet(xinputState.wButtons, XInputButtonMasks[b + 1]) ELSE @[b]],
        !.m_state.axes = [a \in Axes |->
            CASE a = 0 -> Thumbstick(xinputState.sThumbLX)
              [] a = 1 -> Thumbstick(xinputState.sThumbLY)
              [] a = 2 -> Thumbstick(xinputState.sThumbRX)
              [] a = 3 -> Thumbstick(xinputState.sThumbRY)
              [] a = 4 -> Trigger(xinputState.bLeftTrigger)
              [] a = 5 -> Trigger(xinputState.bRightTrigger)
              [] OTHER -> @[a]]]

HasXInputIndex(js, xinputIndex) == \E i \in DOMAIN js : js[i].m_xInputIndex = xinputIndex

\* The slot the inner loop of lines 485-541 stops at.
FindXInputIndex(js, xinputIndex) ==
    CHOOSE i \in DOMAIN js :
        /\ js[i].m_xInputIndex = xinputIndex
        /\ \A k \in 0 .. (i - 1) : js[k].m_xInputIndex # xinputIndex

\* An iteration that decodes every snapshot it reads, whatever its packet number.
XInputStepAlwaysDecodes(js, xinputIndex, xinputState) ==
    IF ~xinputState.present THEN js
    ELSE IF ~HasXInputIndex(js, xinputIndex) THEN js
    ELSE LET i == FindXInputIndex(js, xinputIndex)
         IN  [js EXCEPT ![i] = XInputDecode(js[i], xinputState)]

\* One iteration of the outer loop.
XInputStep(js, xinputIndex, xinputState) ==
    IF ~xinputState.present THEN js
    ELSE IF ~HasXInputIndex(js, xinputIndex) THEN js
    ELSE LET i == FindXInputIndex(js, xinputIndex)
         IN  IF js[i].m_xInputPacketNumber # xinputState.dwPacketNumber
             THEN [js EXCEPT ![i] = XInputDecode(js[i], xinputState)]
             ELSE js

RECURSIVE XInputLoopStopsAtAbsent(_, _, _)
\* A loop that ends at the first index without a controller.
XInputLoopStopsAtAbsent(js, snaps, xinputIndex) ==
    IF xinputIndex > 3 THEN js
    ELSE IF ~snaps[xinputIndex].present THEN js
    ELSE XInputLoopStopsAtAbsent(XInputStep(js, xinputIndex, snaps[xinputIndex]),
                                 snaps, xinputIndex + 1)

RECURSIVE XInputLoop(_, _, _)
\* Lines 475-542: the loop over the indexes 0, 1, 2, 3, from xinputIndex on.
XInputLoop(js, snaps, xinputIndex) ==
    IF xinputIndex > 3 THEN js
    ELSE XInputLoop(XInputStep(js, xinputIndex, snaps[xinputIndex]), snaps, xinputIndex + 1)

dispatchXInput(snaps) ==
    /\ joysticks' = XInputLoop(joysticks, snaps, 0)
    /\ ev' = [kind |-> "tick", token |-> NullHandle, slot |-> size(joysticks), arg |-> snaps]
    /\ UNCHANGED <<usageSizeDataChunk, fileHandles>>

---------------------------------------------------------------------------
(* The consumer queries (lines 674-716).  isConnected is static; open,     *)
(* getCapabilities, getIdentification and update are called on a           *)
(* JoystickImpl object of the caller, which is not an element of the       *)
(* registry: the registry is local to the translation unit.                *)

\* An isConnected that answers true for an index past the end.
isConnectedDefaultsTrue(js, index) ==
    IF index < size(js) THEN js[index].m_state.connected ELSE TRUE

isConnected(js, index) ==
    IF index < size(js) THEN js[index].m_state.connected ELSE FALSE

\* open(index) returns the flag and assigns no member of the object.
open(js, index) ==
    IF index < size(js) THEN js[index].m_state.connected ELSE FALSE

\* The caller's object: it is default-constructed, and no member function
\* that the caller can reach assigns m_index.
ConsumerInstance == DefaultJoystickImpl

getCapabilities(js, this) == js[this.m_index].m_caps

getIdentification(js, this) == js[this.m_index].m_identification

update(js, this) == js[this.m_index].m_state

\* One round of queries for joystick `index`.  ev.slot is the element of the
\* registry the three accessors address; outside the registry the read is
\* undefined and the record carries nothing for it.
ConsumerQueries(indexes) ==
    \E index \in indexes :
        LET this == ConsumerInstance
            inside == this.m_index \in DOMAIN joysticks
        IN  /\ ev' = [kind  |-> "query",
                      token |-> NullHandle,
                      slot  |-> this.m_index,
                      arg   |-> [index          |-> index,
                                 isConnected    |-> isConnected(joysticks, index),
                                 open           |-> open(joysticks, index),
                                 caps           |-> IF inside THEN getCapabilities(joysticks, this)
                                                    ELSE <<>>,
                                 identification |-> IF inside THEN getIdentification(joysticks, this)
                                                    ELSE <<>>,
                                 state          |-> IF inside THEN update(joysticks, this)
                                                    ELSE <<>>]]
            /\ UNCHANGED <<joysticks, usageSizeDataChunk, fileHandles, inflight, reader>>

---------------------------------------------------------------------------
(* The event source.  The window procedure (lines 720-755) calls one       *)
(* handler per message.  The platform gives a device handle to one         *)
(* attached device at a time, so a handle that a slot holds does not       *)
(* arrive again before it has departed.                                    *)

\* No call of dispatchRawInput is under way.
NoCall == [active |-> FALSE]

\* The window procedure handles one message at a time.
Idle == ~inflight.active

\* update() has read some member of the state and has not returned.
Copying == reader.pc = "copying"

\* A handler has returned: if the consumer is inside update(), the state of
\* the slot it copies, as the handler leaves it, is one of the states the
\* slot has between two events during the call (history).
Handled ==
    /\ inflight' = NoCall
    /\ reader' = IF Copying
                 THEN [reader EXCEPT !.seen = @ \cup {update(joysticks', ConsumerInstance)}]
                 ELSE reader

\* arrivalsOf[t] are the answers the platform may give about the device
\* with handle t: [path, nameOk, name].
DeviceArrived(tokens, arrivalsOf) ==
    \E t \in tokens :
        \E a \in arrivalsOf[t] :
            /\ ~Holds(joysticks, t)
            /\ Idle
            /\ dispatchDeviceConnected(t, a.path, a.fileOk, a.nameOk, a.name)
            /\ Handled

DeviceDeparted(tokens) ==
    \E t \in tokens : Idle /\ dispatchDeviceRemoved(t) /\ Handled

\* descOf[t] is the descriptor of the device with handle t; reportsOf[t] and
\* failsOf[t] are the reports it sends and the queries that may fail.
RawReportReceived(tokens, descOf, reportsOf, failsOf) ==
    \E t \in tokens :
        \E r \in reportsOf[t], f \in failsOf[t] :
            Idle /\ dispatchRawInput(t, descOf[t], r, f) /\ Handled

Tick(snapshots) ==
    \E snaps \in snapshots : Idle /\ dispatchXInput(snaps) /\ Handled

---------------------------------------------------------------------------
(* The two threads side by side.  dispatchRawInput writes the slot in      *)
(* place, between the queries it makes; update() copies the state of the   *)
(* slot member by member.  Neither takes a lock, so the consumer thread    *)
(* may run while the handler is inside a query, and the handler may run    *)
(* between two members of the copy.                                        *)

\* The queries behind which the handler has written something, in the order
\* it makes them.
RawInputPoints(desc) ==
    <<FailAt("HidP_GetButtonCaps", 0)>>
    \o [i \in 1 .. Len(desc.buttonCaps) |-> FailAt("HidP_GetUsages", i - 1)]
    \o <<FailAt("HidP_GetValueCaps", 0)>>
    \o [i \in 1 .. Min(Len(desc.valueCaps), AxisCount) |-> FailAt("HidP_GetUsageValue", i - 1)]

\* The registry and the scratch buffer while the call is inside its query
\* number call.at: what the handler has written by then is what it would
\* leave behind if it returned from that query.
InFlightState(call) ==
    RawInput(call.joysticks, call.chunk, call.token, call.desc, call.report,
             RawInputPoints(call.desc)[call.at])

\* The registry and the scratch buffer when the call returns.
ReturnState(call) ==
    RawInput(call.joysticks, call.chunk, call.token, call.desc, call.report, NoFailure)

\* The handler is called and reaches its first query.
RawInputEnters(tokens, descOf, reportsOf) ==
    \E t \in tokens :
        \E r \in reportsOf[t] :
            LET call == [active |-> TRUE, token |-> t, desc |-> descOf[t], report |-> r,
                         joysticks |-> joysticks, chunk |-> usageSizeDataChunk, at |-> 1]
            IN  /\ Idle
                /\ inflight' = call
                /\ joysticks' = InFlightState(call).joysticks
                /\ usageSizeDataChunk' = InFlightState(call).chunk
                /\ UNCHANGED <<ev, fileHandles, reader>>

\* The handler goes on to its next query.
RawInputProceeds ==
    /\ inflight.active
    /\ inflight.at < Len(RawInputPoints(inflight.desc))
    /\ inflight' = [inflight EXCEPT !.at = @ + 1]
    /\ joysticks' = InFlightState(inflight').joysticks
    /\ usageSizeDataChunk' = InFlightState(inflight').chunk
    /\ UNCHANGED <<ev, fileHandles, reader>>

\* The handler returns from its last query and finishes.
RawInputReturns ==
    /\ inflight.active
    /\ inflight.at = Len(RawInputPoints(inflight.desc))
    /\ joysticks' = ReturnState(inflight).joysticks
    /\ usageSizeDataChunk' = ReturnState(inflight).chunk
    /\ ev' = [kind |-> "report", token |-> inflight.token,
              slot |-> IF Holds(joysticks, inflight.token)
                       THEN FindSlot(joysticks, inflight.token) ELSE size(joysticks),
              arg |-> [desc |-> inflight.desc, report |-> inflight.report,
                       fail |-> NoFailure]]
    /\ UNCHANGED fileHandles
    /\ Handled

\* The members of JoystickState.
StateMembers == {"connected", "axes", "buttons"}

\* update() is called.  reader.seen starts with the state the slot had
\* when the last event ended (history).
UpdateBegins ==
    /\ ~Copying
    /\ reader' = [pc     |-> "copying",
                  unread |-> StateMembers,
                  got    |-> DefaultState,
                  seen   |-> {update(IF Idle THEN joysticks ELSE inflight.joysticks,
                                     ConsumerInstance)}]
    /\ UNCHANGED <<joysticks, usageSizeDataChunk, ev, fileHandles, inflight>>

\* update() copies one more member, in whatever order the copy is made, and
\* returns after the last.  If a handler is under way then, the state it
\* will leave counts as seen as well.
UpdateCopies ==
    /\ Copying
    /\ \E member \in reader.unread :
          reader' = [pc     |-> IF reader.unread = {member} THEN "returned" ELSE "copying",
                     unread |-> reader.unread \ {member},
                     got    |-> [reader.got EXCEPT
                                    ![member] = update(joysticks, ConsumerInstance)[member]],
                     seen   |-> IF reader.unread = {member} /\ ~Idle
                                THEN reader.seen
                                       \cup {update(ReturnState(inflight).joysticks,
                                                    ConsumerInstance)}
                                ELSE reader.seen]
    /\ UNCHANGED <<joysticks, usageSizeDataChunk, ev, fileHandles, inflight>>

Init ==
    /\ joysticks = InitialJoysticks
    /\ usageSizeDataChunk = InitialChunk
    /\ fileHandles = {}
    /\ inflight = NoCall
    /\ reader = [pc |-> "idle"]
    /\ ev = [kind |-> "init", token |-> NullHandle, slot |-> NoSlot, arg |-> <<>>]

---------------------------------------------------------------------------
(* Inputs of the registry specification: the handles with an odd number    *)
(* belong to poll-backed devices, the others to report-backed ones; one    *)
(* report and one snapshot.                                                *)

PathHid ==
    <<"V", "I", "D", "_", "0", "4", "6", "D", "&",
      "P", "I", "D", "_", "C", "2", "1", "6">>

PathXInput ==
    <<"V", "I", "D", "_", "0", "4", "5", "E", "&",
      "P", "I", "D", "_", "0", "2", "8", "E", "&", "I", "G", "_", "0", "0">>

ArrivalHid    == [path |-> PathHid, fileOk |-> TRUE, nameOk |-> TRUE, name |-> "Stick"]
ArrivalXInput == [path |-> PathXInput, fileOk |-> TRUE, nameOk |-> TRUE, name |-> "Pad"]

\* One button range of 3 usages, one 2-bit value range.
DescSmall ==
    [buttonCaps |-> <<[UsageMin |-> 1, UsageMax |-> 3]>>,
     valueCaps  |-> <<[BitSize |-> 2, LogicalMin |-> 0, LogicalMax |-> 3]>>]

RegistryArrivalsOf ==
    [t \in Tokens |-> IF t % 2 = 1 THEN {ArrivalXInput} ELSE {ArrivalHid}]

RegistryDescOf == [t \in Tokens |-> DescSmall]

RegistryReports == [t \in Tokens |-> {[usages |-> <<<<2>>>>, values |-> <<3>>]}]

RegistryFails == [t \in Tokens |-> {NoFailure}]

Absent == [present |-> FALSE]

Snapshot(packet, wButtons, thumb, trigger) ==
    [present |-> TRUE, dwPacketNumber |-> packet, wButtons |-> wButtons,
     sThumbLX |-> thumb, sThumbLY |-> 0, sThumbRX |-> 0, sThumbRY |-> thumb,
     bLeftTrigger |-> trigger, bRightTrigger |-> 0]

\* Every poll index present with the same snapshot.
RegistrySnapshots == {[x \in XInputIndexes |-> Snapshot(1, 4096, 32767, 255)]}

RegistryNext ==
    \/ DeviceArrived(Tokens, RegistryArrivalsOf)
    \/ DeviceDeparted(Tokens)
    \/ RawReportReceived(Tokens, RegistryDescOf, RegistryReports, RegistryFails)
    \/ Tick(RegistrySnapshots)

Spec == Init /\ [][RegistryNext]_vars

---------------------------------------------------------------------------
(* Inputs of the report specification: one report-backed device with a     *)
(* single button range, every list of active usages of that range.         *)

RECURSIVE Ascending(_)
\* The elements of a finite set of numbers in ascending order.
Ascending(S) ==
    IF S = {} THEN <<>>
    ELSE LET m == CHOOSE x \in S : \A y \in S : x <= y
         IN  <<m>> \o Ascending(S \ {m})

\* One button range with the usages 1..3, one 2-bit value range.
DescSingle ==
    [buttonCaps |-> <<[UsageMin |-> 1, UsageMax |-> 3]>>,
     valueCaps  |-> <<[BitSize |-> 2, LogicalMin |-> 0, LogicalMax |-> 3]>>]

ReportTokens == {2}

ReportArrivalsOf == [t \in ReportTokens |-> {ArrivalHid}]

ReportDescOf == [t \in ReportTokens |-> DescSingle]

\* Every set of usages of the single range, with a sampled raw value.
SingleRangeReports(d) ==
    {[usages |-> <<Ascending(S)>>, values |-> <<v>>] :
        S \in SUBSET (d.buttonCaps[1].UsageMin .. d.buttonCaps[1].UsageMax),
        v \in {0, 3}}

ReportReports == [t \in ReportTokens |-> SingleRangeReports(ReportDescOf[t])]

ReportFails == [t \in ReportTokens |-> {NoFailure, FailAt("HidP_GetUsages", 0)}]

ReportNext ==
    \/ DeviceArrived(ReportTokens, ReportArrivalsOf)
    \/ DeviceDeparted(ReportTokens)
    \/ RawReportReceived(ReportTokens, ReportDescOf, ReportReports, ReportFails)
    \/ Tick(RegistrySnapshots)

SpecReport == Init /\ [][ReportNext]_vars

---------------------------------------------------------------------------
(* Inputs of the failure specification: one report-backed device with two  *)
(* button ranges and two value ranges, and a failure of every query the    *)
(* handler makes.                                                          *)

DescDouble ==
    [buttonCaps |-> <<[UsageMin |-> 1, UsageMax |-> 2], [UsageMin |-> 5, UsageMax |-> 6]>>,
     valueCaps  |-> <<[BitSize |-> 2, LogicalMin |-> 0, LogicalMax |-> 3],
                      [BitSize |-> 2, LogicalMin |-> 0, LogicalMax |-> 3]>>]

FailureTokens == {2}

FailureArrivalsOf == [t \in FailureTokens |-> {ArrivalHid}]

FailureDescOf == [t \in FailureTokens |-> DescDouble]

FailureReports ==
    [t \in FailureTokens |->
        {[usages |-> <<u1, u2>>, values |-> v] :
            u1 \in {<<>>, <<1, 2>>}, u2 \in {<<>>, <<5>>}, v \in {<<0, 1>>, <<3, 2>>}}]

\* Every query of the handler, the ones made in a loop at every index.
AllFails(d) ==
    {NoFailure}
    \cup {FailAt(q, 0) : q \in {"GetRawInputData", "NotHid", "GetRawInputDeviceInfoW",
                                "HidP_GetCaps", "HidP_GetButtonCaps", "HidP_GetValueCaps"}}
    \cup {FailAt("HidP_GetUsages", i) : i \in 0 .. (Len(d.buttonCaps) - 1)}
    \cup {FailAt("HidP_GetUsageValue", i) : i \in 0 .. (Min(Len(d.valueCaps), AxisCount) - 1)}

FailureFails == [t \in FailureTokens |-> AllFails(FailureDescOf[t])]

FailureNext ==
    \/ DeviceArrived(FailureTokens, FailureArrivalsOf)
    \/ DeviceDeparted(FailureTokens)
    \/ RawReportReceived(FailureTokens, FailureDescOf, FailureReports, FailureFails)
    \/ Tick(RegistrySnapshots)

SpecFailure == Init /\ [][FailureNext]_vars

---------------------------------------------------------------------------
(* Inputs of the poll specification: two poll-backed devices, and at the   *)
(* poll indexes 0 and 1 every combination of absent and sampled snapshots. *)

\* Packet numbers the snapshots carry: 0 .. MaxPacket.
MaxPacket == 1

\* Raw stick values: both ends of the signed 16-bit range, the last value
\* inside the dead zone and the first outside it.
PollContents ==
    {[wButtons |-> 0, thumb |-> deadzone - 1, trigger |-> 0],
     [wButtons |-> 4096 + 1, thumb |-> 32767, trigger |-> 255],
     [wButtons |-> 65535, thumb |-> -32768, trigger |-> 128]}

PollSamples ==
    {Absent} \cup {Snapshot(p, c.wButtons, c.thumb, c.trigger) :
                      p \in 0 .. MaxPacket, c \in PollContents}

PollSnapshots ==
    {[x \in XInputIndexes |-> IF x = 0 THEN a ELSE IF x = 1 THEN b ELSE Absent] :
        a \in PollSamples, b \in PollSamples}

PollTokens == {1, 3}

PollArrivalsOf == [t \in PollTokens |-> {ArrivalXInput}]

PollDescOf == [t \in PollTokens |-> DescSmall]

PollReports == [t \in PollTokens |-> {[usages |-> <<<<2>>>>, values |-> <<3>>]}]

PollFails == [t \in PollTokens |-> {NoFailure}]

PollNext ==
    \/ DeviceArrived(PollTokens, PollArrivalsOf)
    \/ DeviceDeparted(PollTokens)
    \/ RawReportReceived(PollTokens, PollDescOf, PollReports, PollFails)
    \/ Tick(PollSnapshots)

SpecPoll == Init /\ [][PollNext]_vars

---------------------------------------------------------------------------
(* Inputs of the query specification: one poll-backed and one              *)
(* report-backed device, and the consumer asking for every index up to one *)
(* past the registry.                                                      *)

QueryTokens == {1, 2}

QueryArrivalsOf == [t \in QueryTokens |-> IF t = 1 THEN {ArrivalXInput} ELSE {ArrivalHid}]

QueryDescOf == [t \in QueryTokens |-> DescSmall]

QueryReports == [t \in QueryTokens |-> {[usages |-> <<<<2>>>>, values |-> <<3>>]}]

QueryFails == [t \in QueryTokens |-> {NoFailure}]

QueryIndexes == 0 .. (Count + 1)

QueryNext ==
    \/ DeviceArrived(QueryTokens, QueryArrivalsOf)
    \/ DeviceDeparted(QueryTokens)
    \/ RawReportReceived(QueryTokens, QueryDescOf, QueryReports, QueryFails)
    \/ Tick(RegistrySnapshots)
    \/ ConsumerQueries(QueryIndexes)

SpecQuery == Init /\ [][QueryNext]_vars

---------------------------------------------------------------------------
(* Inputs of the identity specification: one device whose path carries     *)
(* every sampled group of four characters behind one marker and a          *)
(* well-formed group behind the other, or lacks a marker, or ends early.   *)

\* Four hexadecimal digits in both cases, and the groups std::wcstoul reads
\* something else from: a prefix, white space, signs, a letter past F.
IdentityGroups ==
    {<<"0", "4", "5", "E">>, <<"0", "2", "e", "a">>, <<"F", "F", "F", "F">>,
     <<"0", "x", "1", "F">>, <<" ", "1", "2", "F">>, <<"+", "0", "A", "1">>,
     <<"-", "1", "2", "3">>, <<"-", "0", "0", "0">>, <<"1", "2", "G", "4">>}

GroupHex == <<"0", "2", "8", "E">>

Amp == <<"&">>

IdentityTails == {<<>>, Amp \o IG_ \o <<"0", "0">>}

IdentityPaths ==
    {VID_ \o g \o Amp \o PID_ \o GroupHex \o t : g \in IdentityGroups, t \in IdentityTails}
    \cup {VID_ \o GroupHex \o Amp \o PID_ \o g \o t : g \in IdentityGroups, t \in IdentityTails}
    \cup {PID_ \o GroupHex,
          VID_ \o GroupHex,
          VID_ \o GroupHex \o Amp \o PID_ \o <<"0", "2">>,
          PID_ \o GroupHex \o Amp \o VID_ \o <<"0", "4", "5">>,
          VID_ \o Amp \o VID_ \o GroupHex \o Amp \o PID_ \o GroupHex}

IdentityTokens == {2}

\* The product string is read or not; the file is opened or not.
IdentityArrivalsOf ==
    [t \in IdentityTokens |->
        {[path |-> p, fileOk |-> TRUE, nameOk |-> TRUE, name |-> "Pad"] :
            p \in IdentityPaths}
        \cup {[path |-> PathXInput, fileOk |-> TRUE, nameOk |-> FALSE, name |-> ""],
              [path |-> PathXInput, fileOk |-> FALSE, nameOk |-> FALSE, name |-> ""]}]

IdentityDescOf == [t \in IdentityTokens |-> DescSmall]

IdentityReports == [t \in IdentityTokens |-> {[usages |-> <<<<2>>>>, values |-> <<3>>]}]

IdentityFails == [t \in IdentityTokens |-> {NoFailure}]

IdentityNext ==
    \/ DeviceArrived(IdentityTokens, IdentityArrivalsOf)
    \/ DeviceDeparted(IdentityTokens)
    \/ RawReportReceived(IdentityTokens, IdentityDescOf, IdentityReports, IdentityFails)
    \/ Tick(RegistrySnapshots)

SpecIdentity == Init /\ [][IdentityNext]_vars

---------------------------------------------------------------------------
(* Inputs of the handle specification: every way through the arrival       *)
(* handler.  The kind of a device is fixed by its handle: a poll-backed    *)
(* device, one whose path has no PID_ marker, one whose product string or  *)
(* whose file cannot be read, a report-backed device.                      *)

PathNoPid == VID_ \o GroupHex

HandleArrivalsOf ==
    [t \in Tokens |->
        CASE t % 4 = 1 -> {ArrivalXInput}
          [] t % 4 = 2 -> {[path |-> PathNoPid, fileOk |-> TRUE, nameOk |-> TRUE, name |-> "Stick"]}
          [] t % 4 = 3 -> {[path |-> PathHid, fileOk |-> TRUE, nameOk |-> FALSE, name |-> ""],
                           [path |-> PathHid, fileOk |-> FALSE, nameOk |-> FALSE, name |-> ""]}
          [] OTHER     -> {ArrivalHid}]

HandleNext ==
    \/ DeviceArrived(Tokens, HandleArrivalsOf)
    \/ DeviceDeparted(Tokens)
    \/ RawReportReceived(Tokens, RegistryDescOf, RegistryReports, RegistryFails)
    \/ Tick(RegistrySnapshots)

SpecHandle == Init /\ [][HandleNext]_vars

---------------------------------------------------------------------------
(* Inputs of the axis specification: two report-backed devices.  The first *)
(* has one 10-bit value range 0..1023.  The second has a signed 8-bit      *)
(* range, declared -128..127, and a 4-bit range declared 0..16, whose      *)
(* bounds are equal once masked.                                           *)

DescTenBit ==
    [buttonCaps |-> <<[UsageMin |-> 1, UsageMax |-> 3]>>,
     valueCaps  |-> <<[BitSize |-> 10, LogicalMin |-> 0, LogicalMax |-> 1023]>>]

DescMasked ==
    [buttonCaps |-> <<[UsageMin |-> 1, UsageMax |-> 3]>>,
     valueCaps  |-> <<[BitSize |-> 8, LogicalMin |-> -128, LogicalMax |-> 127],
                      [BitSize |-> 4, LogicalMin |-> 0, LogicalMax |-> 16]>>]

AxisTokens == {2, 4}

AxisArrivalsOf == [t \in AxisTokens |-> {ArrivalHid}]

AxisDescOf == [t \in AxisTokens |-> IF t = 2 THEN DescTenBit ELSE DescMasked]

\* Raw values: the ends of each range, the two in the middle, and others.
AxisReports ==
    [t \in AxisTokens |->
        IF t = 2
        THEN {[usages |-> <<<<2>>>>, values |-> <<v>>] : v \in {0, 1, 511, 512, 1023}}
        ELSE {[usages |-> <<<<>>>>, values |-> <<v, w>>] :
                 v \in {0, 127, 128, 255}, w \in {0, 7, 15}}]

AxisFails == [t \in AxisTokens |-> {NoFailure}]

AxisNext ==
    \/ DeviceArrived(AxisTokens, AxisArrivalsOf)
    \/ DeviceDeparted(AxisTokens)
    \/ RawReportReceived(AxisTokens, AxisDescOf, AxisReports, AxisFails)
    \/ Tick(RegistrySnapshots)

SpecAxis == Init /\ [][AxisNext]_vars

---------------------------------------------------------------------------
(* Inputs of the stick specification: one poll-backed device, and at poll  *)
(* index 0 snapshots with the sampled raw values on the four stick axes.   *)

\* Both ends of the signed 16-bit range, and on both sides of 0 the last
\* value inside the dead zone and the first outside it.
StickValues ==
    {-32768, -32767, -deadzone, 1 - deadzone, 0, deadzone - 1, deadzone, 32767}

StickSnapshot(packet, a, b) ==
    [present |-> TRUE, dwPacketNumber |-> packet, wButtons |-> 0,
     sThumbLX |-> a, sThumbLY |-> b, sThumbRX |-> -1 - a, sThumbRY |-> -1 - b,
     bLeftTrigger |-> 0, bRightTrigger |-> 255]

StickSnapshots ==
    {[x \in XInputIndexes |-> IF x = 0 THEN StickSnapshot(p, a, b) ELSE Absent] :
        p \in 0 .. MaxPacket, a \in StickValues, b \in {deadzone, -32768}}

StickTokens == {1}

StickArrivalsOf == [t \in StickTokens |-> {ArrivalXInput}]

StickDescOf == [t \in StickTokens |-> DescSmall]

StickReports == [t \in StickTokens |-> {[usages |-> <<<<2>>>>, values |-> <<3>>]}]

StickFails == [t \in StickTokens |-> {NoFailure}]

StickNext ==
    \/ DeviceArrived(StickTokens, StickArrivalsOf)
    \/ DeviceDeparted(StickTokens)
    \/ RawReportReceived(StickTokens, StickDescOf, StickReports, StickFails)
    \/ Tick(StickSnapshots)

SpecStick == Init /\ [][StickNext]_vars

---------------------------------------------------------------------------
(* Inputs of the capability specification: two report-backed devices, one  *)
(* with two button ranges and two value ranges, one with a button range    *)
(* and no value range.  The query for the capabilities may fail.           *)

DescButtonsOnly ==
    [buttonCaps |-> <<[UsageMin |-> 1, UsageMax |-> 3]>>,
     valueCaps  |-> <<>>]

CapsTokens == {2, 4}

CapsArrivalsOf == [t \in CapsTokens |-> {ArrivalHid}]

CapsDescOf == [t \in CapsTokens |-> IF t = 2 THEN DescDouble ELSE DescButtonsOnly]

CapsReports ==
    [t \in CapsTokens |->
        IF t = 2
        THEN {[usages |-> <<u1, u2>>, values |-> <<0, 3>>] :
                 u1 \in {<<>>, <<1, 2>>}, u2 \in {<<>>, <<5>>}}
        ELSE {[usages |-> <<u>>, values |-> <<>>] : u \in {<<>>, <<2>>}}]

CapsFails == [t \in CapsTokens |-> {NoFailure, FailAt("HidP_GetCaps", 0)}]

CapsNext ==
    \/ DeviceArrived(CapsTokens, CapsArrivalsOf)
    \/ DeviceDeparted(CapsTokens)
    \/ RawReportReceived(CapsTokens, CapsDescOf, CapsReports, CapsFails)
    \/ Tick(RegistrySnapshots)

SpecCaps == Init /\ [][CapsNext]_vars

---------------------------------------------------------------------------
(* The capacity specification.  dispatchXInput polls four indexes, and the *)
(* registry of SFML has eight slots.  The registry of this specification   *)
(* has one slot more than there are poll indexes, and there are as many    *)
(* poll-backed devices as slots.  Every device may arrive; the first may   *)
(* depart again.  A tick finds a controller at poll index 0 only.          *)

\* Joystick::Count in this specification.
CapacityCount == 5

CapacityJoysticks ==
    [i \in 0 .. (CapacityCount - 1) |-> [DefaultJoystickImpl EXCEPT !.m_index = i]]

InitCapacity ==
    /\ joysticks = CapacityJoysticks
    /\ usageSizeDataChunk = InitialChunk
    /\ fileHandles = {}
    /\ inflight = NoCall
    /\ reader = [pc |-> "idle"]
    /\ ev = [kind |-> "init", token |-> NullHandle, slot |-> CapacityCount, arg |-> <<>>]

CapacityTokens == 1 .. CapacityCount

CapacityLeavers == {1}

CapacityArrivalsOf == [t \in CapacityTokens |-> {ArrivalXInput}]

CapacityDescOf == [t \in CapacityTokens |-> DescSmall]

CapacityReports == [t \in CapacityTokens |-> {[usages |-> <<<<2>>>>, values |-> <<3>>]}]

CapacityFails == [t \in CapacityTokens |-> {NoFailure}]

CapacitySnapshots ==
    {[x \in XInputIndexes |-> IF x = 0 THEN Snapshot(1, 4096, 32767, 255) ELSE Absent]}

CapacityNext ==
    \/ DeviceArrived(CapacityTokens, CapacityArrivalsOf)
    \/ DeviceDeparted(CapacityLeavers)
    \/ RawReportReceived(CapacityLeavers, CapacityDescOf, CapacityReports, CapacityFails)
    \/ Tick(CapacitySnapshots)

SpecCapacity == InitCapacity /\ [][CapacityNext]_vars

---------------------------------------------------------------------------
(* Inputs of the pad specification: one poll-backed device, and at poll    *)
(* index 0 snapshots with no button, every single bit of the button word,  *)
(* all bits, and the sampled raw values on the two triggers.               *)

PadSnapshot(packet, wButtons, left, right) ==
    [present |-> TRUE, dwPacketNumber |-> packet, wButtons |-> wButtons,
     sThumbLX |-> 0, sThumbLY |-> 0, sThumbRX |-> 0, sThumbRY |-> 0,
     bLeftTrigger |-> left, bRightTrigger |-> right]

PadButtons == {0, 65535} \cup {Pow2(k) : k \in 0 .. 15}

\* Both ends of the unsigned 8-bit range, their neighbours and the middle.
PadTriggers == {0, 1, 127, 128, 254, 255}

PadSnapshots ==
    {[x \in XInputIndexes |-> IF x = 0 THEN PadSnapshot(p, w, 0, 255) ELSE Absent] :
        p \in 0 .. MaxPacket, w \in PadButtons}
    \cup {[x \in XInputIndexes |-> IF x = 0 THEN PadSnapshot(p, 0, l, 255 - l) ELSE Absent] :
        p \in 0 .. MaxPacket, l \in PadTriggers}

PadTokens == {1}

PadArrivalsOf == [t \in PadTokens |-> {ArrivalXInput}]

PadDescOf == [t \in PadTokens |-> DescSmall]

PadReports == [t \in PadTokens |-> {[usages |-> <<<<2>>>>, values |-> <<3>>]}]

PadFails == [t \in PadTokens |-> {NoFailure}]

PadNext ==
    \/ DeviceArrived(PadTokens, PadArrivalsOf)
    \/ DeviceDeparted(PadTokens)
    \/ RawReportReceived(PadTokens, PadDescOf, PadReports, PadFails)
    \/ Tick(PadSnapshots)

SpecPad == Init /\ [][PadNext]_vars

---------------------------------------------------------------------------
(* Inputs of the ordinal specification: two report-backed devices whose    *)
(* descriptor declares nine value ranges, one more than there are axes.    *)

ValueRange2Bit == [BitSize |-> 2, LogicalMin |-> 0, LogicalMax |-> 3]

DescNine ==
    [buttonCaps |-> <<[UsageMin |-> 1, UsageMax |-> 3]>>,
     valueCaps  |-> [i \in 1 .. (AxisCount + 1) |-> ValueRange2Bit]]

OrdinalTokens == {2, 4}

OrdinalArrivalsOf == [t \in OrdinalTokens |-> {ArrivalHid}]

OrdinalDescOf == [t \in OrdinalTokens |-> DescNine]

\* The raw value of the ninth range differs from the one of the first.
OrdinalReports ==
    [t \in OrdinalTokens |->
        {[usages |-> <<<<2>>>>, values |-> <<0, 1, 2, 3, 0, 1, 2, 3, 3>>],
         [usages |-> <<<<>>>>,  values |-> <<3, 2, 1, 0, 3, 2, 1, 0, 0>>],
         [usages |-> <<<<1>>>>, values |-> <<1, 1, 2, 2, 3, 3, 0, 0, 2>>]}]

OrdinalFails == [t \in OrdinalTokens |-> {NoFailure, FailAt("HidP_GetValueCaps", 0)}]

OrdinalNext ==
    \/ DeviceArrived(OrdinalTokens, OrdinalArrivalsOf)
    \/ DeviceDeparted(OrdinalTokens)
    \/ RawReportReceived(OrdinalTokens, OrdinalDescOf, OrdinalReports, OrdinalFails)
    \/ Tick(RegistrySnapshots)

SpecOrdinal == Init /\ [][OrdinalNext]_vars

---------------------------------------------------------------------------
(* Inputs of the race specification: one report-backed device and two      *)
(* reports that differ in every button and in the axis.                    *)

RaceTokens == {2}

RaceArrivalsOf == [t \in RaceTokens |-> {ArrivalHid}]

RaceDescOf == [t \in RaceTokens |-> DescSmall]

RaceReports ==
    [t \in RaceTokens |-> {[usages |-> <<<<2>>>>, values |-> <<3>>],
                           [usages |-> <<<<1, 3>>>>, values |-> <<0>>]}]

RaceNext ==
    \/ DeviceArrived(RaceTokens, RaceArrivalsOf)
    \/ DeviceDeparted(RaceTokens)
    \/ Tick(RegistrySnapshots)
    \/ RawInputEnters(RaceTokens, RaceDescOf, RaceReports)
    \/ RawInputProceeds
    \/ RawInputReturns
    \/ UpdateBegins
    \/ UpdateCopies

SpecRace == Init /\ [][RaceNext]_vars

---------------------------------------------------------------------------
(* Properties of the registry.                                             *)

Occupied(j) == j.m_lastDeviceHandle # NullHandle

PollBacked(j) == Occupied(j) /\ j.m_useXInput

\* C1: in every reachable state no two occupied poll-backed slots hold the
\* same poll index.
C1_PollIndexUnique ==
    \A i \in Slots, k \in Slots :
        (i # k /\ PollBacked(joysticks[i]) /\ PollBacked(joysticks[k]))
            => joysticks[i].m_xInputIndex # joysticks[k].m_xInputIndex

\* C3: a departure of a handle held by slot i leaves slot i with all buttons
\* released, all axes 0, disconnected, without capabilities and without a
\* handle, and with the index it had before.
C3_DepartureResets ==
    [][(ev'.kind = "departed" /\ Holds(joysticks, ev'.token)) =>
          \E i \in Slots :
              /\ joysticks[i].m_lastDeviceHandle = ev'.token
              /\ \A b \in Buttons : joysticks'[i].m_state.buttons[b] = FALSE
              /\ \A a \in Axes : joysticks'[i].m_state.axes[a] = Zero
              /\ joysticks'[i].m_state.connected = FALSE
              /\ joysticks'[i].m_caps.buttonCount = 0
              /\ joysticks'[i].m_caps.axes = {}
              /\ joysticks'[i].m_lastDeviceHandle = NullHandle
              /\ joysticks'[i].m_index = joysticks[i].m_index]_vars

\* A poll-backed device that had been assigned a slot has just departed.
C3_Witness ==
    /\ ev.kind = "departed"
    /\ ev.slot # NoSlot
    /\ IsFree(joysticks[ev.slot])
    /\ joysticks[ev.slot].m_useXInput

\* C4: in every reachable state the slot at position i has index i.
C4_IndexIsPosition ==
    \A i \in Slots : joysticks[i].m_index = i

\* C5: an arrival while no slot is free changes no field of any slot, and
\* the arriving handle is held by no slot afterwards.
C5_FullRegistryDropsArrival ==
    [][(ev'.kind = "arrived" /\ \A i \in Slots : Occupied(joysticks[i])) =>
          /\ joysticks' = joysticks
          /\ \A i \in Slots : joysticks'[i].m_lastDeviceHandle # ev'.token]_vars

\* An arrival has just been dropped by a full registry.
C5_Witness ==
    /\ ev.kind = "arrived"
    /\ ev.slot = NoSlot
    /\ \A i \in Slots : Occupied(joysticks[i]) /\ joysticks[i].m_lastDeviceHandle # ev.token

\* C6: an arrival while a slot is free stores the handle in the free slot
\* with the lowest index and in no other slot.
C6_FirstFit ==
    [][(ev'.kind = "arrived" /\ \E i \in Slots : ~Occupied(joysticks[i])) =>
          \E f \in Slots :
              /\ ~Occupied(joysticks[f])
              /\ \A k \in Slots : k < f => Occupied(joysticks[k])
              /\ joysticks'[f].m_lastDeviceHandle = ev'.token
              /\ \A k \in Slots : k # f => joysticks'[k].m_lastDeviceHandle # ev'.token]_vars

\* An arrival has just filled slot 0 while a higher slot is occupied: the
\* slot was freed by a departure and is reused.
C6_Witness ==
    /\ ev.kind = "arrived"
    /\ ev.slot = 0
    /\ joysticks[0].m_lastDeviceHandle = ev.token
    /\ \E k \in Slots : k > 0 /\ Occupied(joysticks[k])

---------------------------------------------------------------------------
(* Properties of the report decoder.                                       *)

\* The query that fails in the last event, if it was a report.
FailedReport == ev.kind = "report" /\ ev.arg.fail # NoFailure

\* The last event was a report of a report-backed device that a slot holds
\* and every query succeeded.
DecodedReport ==
    /\ ev.kind = "report"
    /\ ev.arg.fail = NoFailure
    /\ ev.slot # NoSlot
    /\ ~joysticks[ev.slot].m_useXInput

\* C2: a report during which a query fails leaves the state and the
\* capabilities of the slot that holds the device as they were.
C2_FailedReportKeepsSlot ==
    [][(ev'.kind = "report" /\ ev'.arg.fail # NoFailure /\ ev'.slot # NoSlot) =>
          /\ joysticks'[ev'.slot].m_state = joysticks[ev'.slot].m_state
          /\ joysticks'[ev'.slot].m_caps = joysticks[ev'.slot].m_caps]_vars

\* C7: after a decoded report of a device with one button range, button b
\* is down exactly if usage UsageMin + b is in the report's active list.
C7_ButtonsMatchActiveUsages ==
    (DecodedReport /\ Len(ev.arg.desc.buttonCaps) = 1) =>
        LET list     == ev.arg.report.usages[1]
            UsageMin == ev.arg.desc.buttonCaps[1].UsageMin
        IN  \A b \in Buttons :
                joysticks[ev.slot].m_state.buttons[b]
                    <=> (\E k \in 1 .. Len(list) : list[k] = UsageMin + b)

---------------------------------------------------------------------------
(* Properties of the poll backend.                                         *)

AxisU == 4
AxisV == 5

\* C8: every axis of every slot is within [-100, 100], and the trigger axes
\* of a poll-backed slot are within [0, 100].
C8_AxesInRange ==
    \A i \in Slots :
        /\ \A a \in Axes : InRange(joysticks[i].m_state.axes[a], -100, 100)
        /\ PollBacked(joysticks[i]) =>
              /\ InRange(joysticks[i].m_state.axes[AxisU], 0, 100)
              /\ InRange(joysticks[i].m_state.axes[AxisV], 0, 100)

\* Slot i has poll index p and the tick read a snapshot at p.
Polled(js, snaps, i, p) == js[i].m_xInputIndex = p /\ snaps[p].present

\* C9: a tick whose snapshot at a slot's poll index carries the packet number
\* the slot has stored leaves the slot's state and packet number unchanged,
\* whatever the snapshot holds.
C9_SamePacketIsNoOp ==
    [][ev'.kind = "tick" =>
          \A i \in Slots, p \in XInputIndexes :
              (/\ Polled(joysticks, ev'.arg, i, p)
               /\ ev'.arg[p].dwPacketNumber = joysticks[i].m_xInputPacketNumber) =>
                  /\ joysticks'[i].m_state = joysticks[i].m_state
                  /\ joysticks'[i].m_xInputPacketNumber = joysticks[i].m_xInputPacketNumber]_vars

\* A tick has just read, at the poll index of an occupied poll-backed slot,
\* a snapshot with the stored packet number whose contents are not the ones
\* the slot holds: the tick did not decode it.
C9_Witness ==
    /\ ev.kind = "tick"
    /\ \E i \in Slots, p \in XInputIndexes :
          /\ PollBacked(joysticks[i])
          /\ Polled(joysticks, ev.arg, i, p)
          /\ ev.arg[p].dwPacketNumber = joysticks[i].m_xInputPacketNumber
          /\ joysticks[i].m_state # XInputDecode(joysticks[i], ev.arg[p]).m_state

\* C10: a tick whose snapshot at poll index p carries a packet number other
\* than the one stored by the slot with poll index p stores the packet
\* number in that slot and sets its buttons 0..13 and its six axes to the
\* values decoded from the snapshot.
C10_NewPacketIsDecoded ==
    [][ev'.kind = "tick" =>
          \A i \in Slots, p \in XInputIndexes :
              (/\ PollBacked(joysticks[i])
               /\ Polled(joysticks, ev'.arg, i, p)
               /\ ev'.arg[p].dwPacketNumber # joysticks[i].m_xInputPacketNumber) =>
                  /\ joysticks'[i].m_xInputPacketNumber = ev'.arg[p].dwPacketNumber
                  /\ \A b \in 0 .. 13 :
                        joysticks'[i].m_state.buttons[b]
                            = BitSet(ev'.arg[p].wButtons, XInputButtonMasks[b + 1])
                  /\ joysticks'[i].m_state.axes[0] = Thumbstick(ev'.arg[p].sThumbLX)
                  /\ joysticks'[i].m_state.axes[1] = Thumbstick(ev'.arg[p].sThumbLY)
                  /\ joysticks'[i].m_state.axes[2] = Thumbstick(ev'.arg[p].sThumbRX)
                  /\ joysticks'[i].m_state.axes[3] = Thumbstick(ev'.arg[p].sThumbRY)
                  /\ joysticks'[i].m_state.axes[AxisU] = Trigger(ev'.arg[p].bLeftTrigger)
                  /\ joysticks'[i].m_state.axes[AxisV] = Trigger(ev'.arg[p].bRightTrigger)]_vars

---------------------------------------------------------------------------
(* Properties of the consumer queries.                                     *)

\* C12: a round of queries for joystick i, i below Count, returns the
\* capabilities, the identification and the state of the slot at position i.
C12_QueriesReturnSlot ==
    (ev.kind = "query" /\ ev.arg.index \in Slots) =>
        /\ ev.arg.caps = joysticks[ev.arg.index].m_caps
        /\ ev.arg.identification = joysticks[ev.arg.index].m_identification
        /\ ev.arg.state = joysticks[ev.arg.index].m_state

\* C13: isConnected and open answer false for an index of Count or more and
\* the connected flag of the slot for an index below Count, and the three
\* accessors address an element of the registry.
C13_QueriesNeverFail ==
    ev.kind = "query" =>
        /\ ev.arg.index >= Count =>
              ev.arg.isConnected = FALSE /\ ev.arg.open = FALSE
        /\ ev.arg.index < Count =>
              /\ ev.arg.isConnected = joysticks[ev.arg.index].m_state.connected
              /\ ev.arg.open = joysticks[ev.arg.index].m_state.connected
        /\ ev.slot \in Slots

\* The consumer has just asked for an index past the registry while a slot
\* holds a connected device.
C13_Witness ==
    /\ ev.kind = "query"
    /\ ev.arg.index >= Count
    /\ \E i \in Slots : joysticks[i].m_state.connected

---------------------------------------------------------------------------
(* Properties of the identity resolution.                                  *)

\* The four characters behind the first occurrence of a marker, or fewer
\* when the path ends before.
GroupAfter(path, marker) ==
    SubSeq(path, find(path, marker) + 5, Min(find(path, marker) + 8, Len(path)))

AllHex(g) == Len(g) = 4 /\ \A k \in 1 .. 4 : IsHexDigit(g[k])

\* The number four hexadecimal digits denote.
Hex4(g) ==
    HexValue(g[1]) * 4096 + HexValue(g[2]) * 256 + HexValue(g[3]) * 16 + HexValue(g[4])

\* The marker occurs and four hexadecimal digits follow its first occurrence.
WellFormed(path, marker) ==
    find(path, marker) # npos /\ AllHex(GroupAfter(path, marker))

\* The last event was an arrival that read the product string, and hence
\* parsed the path, and stored the device.
ParsedArrival ==
    /\ ev.kind = "arrived"
    /\ ev.arg.nameOk
    /\ ev.slot # NoSlot

\* C14: a device whose path has four hexadecimal digits behind the first
\* VID_ and behind the first PID_ is stored with the vendor and product
\* numbers those digits denote.
C14_WellFormedPathIsParsed ==
    (ParsedArrival /\ WellFormed(ev.arg.path, VID_) /\ WellFormed(ev.arg.path, PID_)) =>
        /\ joysticks[ev.slot].m_identification.vendorId = Hex4(GroupAfter(ev.arg.path, VID_))
        /\ joysticks[ev.slot].m_identification.productId = Hex4(GroupAfter(ev.arg.path, PID_))

\* A device with lower-case digits in its path has just been stored.
C14_Witness ==
    /\ ParsedArrival
    /\ WellFormed(ev.arg.path, VID_) /\ WellFormed(ev.arg.path, PID_)
    /\ GroupAfter(ev.arg.path, VID_) = <<"0", "2", "e", "a">>
    /\ joysticks[ev.slot].m_identification.vendorId = 746

\* C15: a device whose path lacks a marker, ends less than four characters
\* behind one, or has something else than four hexadecimal digits there, is
\* stored without vendor and product numbers and as report-backed: the
\* parse has failed.
C15_MalformedPathFails ==
    (ParsedArrival /\ ~(WellFormed(ev.arg.path, VID_) /\ WellFormed(ev.arg.path, PID_))) =>
        /\ joysticks[ev.slot].m_identification.vendorId = 0
        /\ joysticks[ev.slot].m_identification.productId = 0
        /\ ~joysticks[ev.slot].m_useXInput

\* C16: a device whose path fails to parse is stored in the first free
\* slot, with an empty name and without vendor and product numbers.
C16_UnparsedDeviceHasNoIdentity ==
    [][(ev'.kind = "arrived" /\ ev'.arg.nameOk /\ ~extractVidPid(ev'.arg.path).ok
            /\ HasFree(joysticks)) =>
          /\ joysticks'[FirstFree(joysticks)].m_lastDeviceHandle = ev'.token
          /\ joysticks'[FirstFree(joysticks)].m_identification = DefaultIdentification]_vars

\* C16 as amended: the slot holds the product string the device reported,
\* and no vendor and product numbers.
C16_UnparsedDeviceKeepsName ==
    [][(ev'.kind = "arrived" /\ ev'.arg.nameOk /\ ~extractVidPid(ev'.arg.path).ok
            /\ HasFree(joysticks)) =>
          /\ joysticks'[FirstFree(joysticks)].m_lastDeviceHandle = ev'.token
          /\ joysticks'[FirstFree(joysticks)].m_identification =
                 [name |-> ev'.arg.name, vendorId |-> 0, productId |-> 0]]_vars

\* A device whose path lacks the PID_ marker has just been stored.
C16_Witness ==
    /\ ParsedArrival
    /\ find(ev.arg.path, PID_) = npos
    /\ joysticks[ev.slot].m_lastDeviceHandle = ev.token
    /\ joysticks[ev.slot].m_identification.name = ev.arg.name

---------------------------------------------------------------------------
(* Properties of the device file handle.                                   *)

\* C20: between two events no device file handle is open, whichever way
\* the arrival handler took.
C20_NoFileHandleOpen == fileHandles = {}

\* An arrival that opened the file of the device has just been dropped by
\* a full registry.
C20_Witness ==
    /\ ev.kind = "arrived"
    /\ ev.arg.fileOk
    /\ ev.slot = NoSlot
    /\ fileHandles = {}

---------------------------------------------------------------------------
(* Properties of the value rescaling.                                      *)

FracEq(a, b) == a.n * b.d = b.n * a.d

\* The value ranges the handler decodes.
DecodedRanges == 0 .. (Min(Len(ev.arg.desc.valueCaps), AxisCount) - 1)

\* The bound b of a range of bitSize bits, masked with 2^bitSize - 1.
Masked(b, bitSize) == b % (2 ^ bitSize)

\* C17: after a decoded report, an axis whose masked bounds differ is -100
\* for the raw value logicalMin, 100 for logicalMax, and
\* -100 + (raw - logicalMin) * 200 / (logicalMax - logicalMin) for a raw
\* value from one bound to the other; for the 10-bit range 0..1023 the two
\* middle values are within 0.1 of 0.
C17_AxisIsRescaled ==
    DecodedReport =>
        \A i \in DecodedRanges :
            LET c   == ev.arg.desc.valueCaps[i + 1]
                lo  == Masked(c.LogicalMin, c.BitSize)
                hi  == Masked(c.LogicalMax, c.BitSize)
                raw == ev.arg.report.values[i + 1]
                v   == joysticks[ev.slot].m_state.axes[i]
            IN  lo # hi =>
                    /\ raw = lo => FracEq(v, FromInt(-100))
                    /\ raw = hi => FracEq(v, FromInt(100))
                    /\ (raw >= Min(lo, hi) /\ raw <= Min(lo, hi) + Abs(hi - lo)) =>
                          v.n * (hi - lo) = v.d * ((raw - lo) * 200 - 100 * (hi - lo))
                    /\ (c.BitSize = 10 /\ lo = 0 /\ hi = 1023 /\ raw \in {511, 512}) =>
                          /\ FracLeq(Frac(-1, 10), v)
                          /\ FracLeq(v, Frac(1, 10))

\* A report has just put the 10-bit axis at its upper bound.
C17_Witness ==
    /\ DecodedReport
    /\ ev.arg.desc = DescTenBit
    /\ ev.arg.report.values[1] = 1023
    /\ FracEq(joysticks[ev.slot].m_state.axes[0], FromInt(100))

\* C18: after a decoded report, an axis whose bounds are equal once masked
\* is the 0 the handler starts from, whatever the raw value: nothing was
\* divided.
C18_EqualBoundsGiveZero ==
    DecodedReport =>
        \A i \in DecodedRanges :
            LET c == ev.arg.desc.valueCaps[i + 1]
            IN  Masked(c.LogicalMin, c.BitSize) = Masked(c.LogicalMax, c.BitSize) =>
                    joysticks[ev.slot].m_state.axes[i] = Zero

\* A report with a raw value other than 0 has just been decoded for a range
\* whose declared bounds differ and whose masked bounds are equal.
C18_Witness ==
    /\ DecodedReport
    /\ ev.arg.desc = DescMasked
    /\ ev.arg.report.values[2] = 15
    /\ joysticks[ev.slot].m_state.axes[1] = Zero

---------------------------------------------------------------------------
(* Properties of the stick axes.                                           *)

\* The axis value the claim gives for the raw stick value r: 0 below the
\* threshold 7849 / 4, else r / 327.67.
StickAxis(v, r) ==
    IF r > -(7849 \div 4) /\ r < 7849 \div 4
    THEN v.n = 0
    ELSE v.n = r * 100 /\ v.d = 32767

\* C19: a tick that reads a snapshot with a new packet number at the poll
\* index of a poll-backed slot, the first slot with that index, leaves each
\* of the axes X, Y, Z, R of the slot at 0 when the raw value is below the
\* threshold in absolute value, and at raw / 327.67 otherwise.
C19_StickAxes ==
    [][ev'.kind = "tick" =>
          \A i \in Slots, p \in XInputIndexes :
              (/\ PollBacked(joysticks[i])
               /\ Polled(joysticks, ev'.arg, i, p)
               /\ i = FindXInputIndex(joysticks, p)
               /\ ev'.arg[p].dwPacketNumber # joysticks[i].m_xInputPacketNumber) =>
                  /\ StickAxis(joysticks'[i].m_state.axes[0], ev'.arg[p].sThumbLX)
                  /\ StickAxis(joysticks'[i].m_state.axes[1], ev'.arg[p].sThumbLY)
                  /\ StickAxis(joysticks'[i].m_state.axes[2], ev'.arg[p].sThumbRX)
                  /\ StickAxis(joysticks'[i].m_state.axes[3], ev'.arg[p].sThumbRY)]_vars

\* A tick has just decoded, for a poll-backed slot, a snapshot with the last
\* raw value inside the dead zone on X and the first outside it on Y.
C19_Witness ==
    /\ ev.kind = "tick"
    /\ \E i \in Slots :
          /\ PollBacked(joysticks[i])
          /\ joysticks[i].m_xInputIndex = 0
          /\ joysticks[i].m_xInputPacketNumber = ev.arg[0].dwPacketNumber
          /\ ev.arg[0].sThumbLX = (7849 \div 4) - 1
          /\ ev.arg[0].sThumbLY = 7849 \div 4
          /\ joysticks[i].m_state.axes[0] = Zero
          /\ joysticks[i].m_state.axes[1] = [n |-> 196200, d |-> 32767]

---------------------------------------------------------------------------
(* Properties of the two threads.                                          *)

\* C11: the state update() returns is the state the slot had at the end of
\* some event, from the last one that ended before the call to the one
\* that was under way when the call returned.
C11_UpdateReturnsSnapshot ==
    reader.pc = "returned" => reader.got \in reader.seen

---------------------------------------------------------------------------
(* Properties of the button decoder.                                       *)

\* No button range of the last report has a usage that is on.
AllListsEmpty ==
    \A k \in 1 .. Len(ev.arg.report.usages) : Len(ev.arg.report.usages[k]) = 0

\* C21: after a decoded report in which the active list of every button
\* range is empty, every button of the slot is released.
C21_EmptyListsReleaseAll ==
    (DecodedReport /\ AllListsEmpty) =>
        \A b \in Buttons : joysticks[ev.slot].m_state.buttons[b] = FALSE

\* A report with two empty active lists has just been decoded while the
\* scratch buffer still holds the usages of an earlier report, which had put
\* buttons down.
C21_Witness ==
    /\ DecodedReport
    /\ Len(ev.arg.report.usages) = 2
    /\ AllListsEmpty
    /\ usageSizeDataChunk[0] # 0
    /\ \A b \in Buttons : joysticks[ev.slot].m_state.buttons[b] = FALSE

---------------------------------------------------------------------------
(* Properties of the backend selection.                                    *)

\* The last event was an arrival that stored the device.
StoredArrival == ev.kind = "arrived" /\ ev.slot # NoSlot

\* C22: a device that has just been stored is poll-backed exactly if its
\* path holds the IG_ marker, whatever the rest of the path and whether or
\* not its product string could be read.
C22_BackendFollowsMarker ==
    StoredArrival =>
        (joysticks[ev.slot].m_useXInput <=> find(ev.arg.path, IG_) # npos)

\* C23: every occupied poll-backed slot, from the arrival that stored its
\* device until the departure of that device, is connected and has 14
\* buttons and the six axes X, Y, Z, R, U, V.
C23_PollBackedIsConnected ==
    \A i \in Slots :
        PollBacked(joysticks[i]) =>
            /\ joysticks[i].m_caps.buttonCount = 14
            /\ joysticks[i].m_caps.axes = {0, 1, 2, 3, AxisU, AxisV}
            /\ joysticks[i].m_state.connected = TRUE

\* A poll-backed device has just been stored and no tick has decoded a
\* snapshot for it: its packet number is the initial one.
C23_Witness ==
    /\ StoredArrival
    /\ PollBacked(joysticks[ev.slot])
    /\ joysticks[ev.slot].m_xInputPacketNumber = 0
    /\ joysticks[ev.slot].m_state.connected = TRUE
    /\ joysticks[ev.slot].m_caps.buttonCount = 14

---------------------------------------------------------------------------
(* Properties of the connected flag of a report-backed slot.               *)

ReportBacked(j) == Occupied(j) /\ ~j.m_useXInput

\* C24: the connected flag of a report-backed slot becomes true only in a
\* report for its device in which every query succeeds; it is false after
\* the arrival and stays false through ticks and failed reports.
C24_ConnectedByDecodedReportOnly ==
    [][\A i \in Slots :
          (ReportBacked(joysticks'[i]) /\ joysticks'[i].m_state.connected
               /\ ~(ReportBacked(joysticks[i]) /\ joysticks[i].m_state.connected)) =>
              /\ ev'.kind = "report"
              /\ ev'.arg.fail = NoFailure
              /\ ev'.token = joysticks'[i].m_lastDeviceHandle]_vars

---------------------------------------------------------------------------
(* Properties of the capability discovery.                                 *)

RECURSIVE SumButtons(_)
\* The sum over the button ranges of UsageMax - UsageMin + 1.
SumButtons(buttonCaps) ==
    IF Len(buttonCaps) = 0 THEN 0
    ELSE Head(buttonCaps).UsageMax - Head(buttonCaps).UsageMin + 1
             + SumButtons(Tail(buttonCaps))

\* The axes of the first min(8, number of value ranges) ordinals.
FirstAxes(valueCaps) == 0 .. (Min(8, Len(valueCaps)) - 1)

\* The last event was an arrival that stored a report-backed device.
StoredReportBacked == StoredArrival /\ ReportBacked(joysticks[ev.slot])

C26_CapsMatchDescriptor ==
    DecodedReport =>
        /\ joysticks[ev.slot].m_caps.buttonCount = SumButtons(ev.arg.desc.buttonCaps)
        /\ joysticks[ev.slot].m_caps.axes = FirstAxes(ev.arg.desc.valueCaps)

---------------------------------------------------------------------------
(* Properties of the poll index.                                           *)

\* C27: in every reachable state the poll index of every occupied
\* poll-backed slot is one of 0, 1, 2, 3.
C27_PollIndexInRange ==
    \A i \in DOMAIN joysticks :
        PollBacked(joysticks[i]) => joysticks[i].m_xInputIndex \in XInputIndexes

---------------------------------------------------------------------------
(* Properties of the pad decoder.                                          *)

\* The tick reads, at the poll index p of the occupied poll-backed slot i
\* its loop stops at, a snapshot with a packet number the slot has not stored.
Recomputes(js, snaps, i, p) ==
    /\ PollBacked(js[i])
    /\ Polled(js, snaps, i, p)
    /\ i = FindXInputIndex(js, p)
    /\ snaps[p].dwPacketNumber # js[i].m_xInputPacketNumber

\* The bit of the button word, counted from the lowest, for each of the
\* buttons 0..13: A, B, X, Y, Dpad-Up, Dpad-Down, Dpad-Left, Dpad-Right,
\* Start, Back, LeftShoulder, RightShoulder, LeftThumb, RightThumb.
PadBitOfButton == <<12, 13, 14, 15, 0, 1, 2, 3, 4, 5, 8, 9, 6, 7>>

\* C28: a tick that recomputes a slot leaves button b, for b in 0..13, down
\* exactly if the bit of button b is set in the snapshot, and leaves the
\* buttons from 14 on as they were.
C28_ButtonsFollowBits ==
    [][ev'.kind = "tick" =>
          \A i \in Slots, p \in XInputIndexes :
              Recomputes(joysticks, ev'.arg, i, p) =>
                  /\ \A b \in 0 .. 13 :
                        joysticks'[i].m_state.buttons[b]
                            <=> ((ev'.arg[p].wButtons \div (2 ^ PadBitOfButton[b + 1])) % 2 = 1)
                  /\ \A b \in 14 .. (ButtonCount - 1) :
                        joysticks'[i].m_state.buttons[b] = joysticks[i].m_state.buttons[b]]_vars

\* A tick has just decoded a snapshot with the bit of LeftShoulder alone:
\* button 10 is down and no other.
C28_Witness ==
    /\ ev.kind = "tick"
    /\ ev.arg[0].wButtons = 256
    /\ PollBacked(joysticks[0])
    /\ joysticks[0].m_xInputIndex = 0
    /\ joysticks[0].m_xInputPacketNumber = ev.arg[0].dwPacketNumber
    /\ \A b \in Buttons : joysticks[0].m_state.buttons[b] <=> b = 10

\* The axis value v is the raw trigger value r divided by 2.55: 0 for 0,
\* 100 for 255, and above 0 for every r above 0.  The quotient does not
\* decrease when r grows.
TriggerAxis(v, r) ==
    /\ v.d > 0
    /\ v.n * 255 = v.d * (r * 100)
    /\ r = 0 => FracEq(v, Zero)
    /\ r = 255 => FracEq(v, FromInt(100))
    /\ r > 0 => v.n > 0

\* C29: a tick that recomputes a slot leaves its axes U and V at the raw
\* values of the left and the right trigger divided by 2.55.
C29_TriggerAxes ==
    [][ev'.kind = "tick" =>
          \A i \in Slots, p \in XInputIndexes :
              Recomputes(joysticks, ev'.arg, i, p) =>
                  /\ TriggerAxis(joysticks'[i].m_state.axes[AxisU], ev'.arg[p].bLeftTrigger)
                  /\ TriggerAxis(joysticks'[i].m_state.axes[AxisV], ev'.arg[p].bRightTrigger)]_vars

\* A tick has just decoded a snapshot with the left trigger at 1 and the
\* right trigger at 254.
C29_Witness ==
    /\ ev.kind = "tick"
    /\ ev.arg[0].bLeftTrigger = 1
    /\ ev.arg[0].bRightTrigger = 254
    /\ PollBacked(joysticks[0])
    /\ joysticks[0].m_xInputIndex = 0
    /\ joysticks[0].m_xInputPacketNumber = ev.arg[0].dwPacketNumber
    /\ joysticks[0].m_state.axes[AxisU] = [n |-> 100, d |-> 255]
    /\ joysticks[0].m_state.axes[AxisV] = [n |-> 25400, d |-> 255]

---------------------------------------------------------------------------
(* Properties of a poll index without a controller.                        *)

\* C30: a tick leaves every slot whose poll index has no controller as it
\* was, and still recomputes the slots of the poll indexes behind it.
C30_AbsentIndexIsSkipped ==
    [][ev'.kind = "tick" =>
          \A i \in Slots, p \in XInputIndexes :
              /\ (joysticks[i].m_xInputIndex = p /\ ~ev'.arg[p].present) =>
                    joysticks'[i] = joysticks[i]
              /\ (Recomputes(joysticks, ev'.arg, i, p)
                     /\ \E q \in 0 .. (p - 1) : ~ev'.arg[q].present) =>
                    /\ joysticks'[i].m_xInputPacketNumber = ev'.arg[p].dwPacketNumber
                    /\ joysticks'[i].m_state = XInputDecode(joysticks[i], ev'.arg[p]).m_state]_vars

\* A tick has just found no controller at poll index 0, which a connected
\* slot holds, and has decoded the snapshot of poll index 1 into the other
\* slot.
C30_Witness ==
    /\ ev.kind = "tick"
    /\ ~ev.arg[0].present
    /\ ev.arg[1].present
    /\ ev.arg[1].wButtons = 65535
    /\ PollBacked(joysticks[0])
    /\ joysticks[0].m_xInputIndex = 0
    /\ joysticks[0].m_state.connected
    /\ joysticks[0].m_xInputPacketNumber = 0
    /\ PollBacked(joysticks[1])
    /\ joysticks[1].m_xInputIndex = 1
    /\ joysticks[1].m_xInputPacketNumber = 1
    /\ joysticks[1].m_xInputPacketNumber = ev.arg[1].dwPacketNumber
    /\ joysticks[1].m_state.buttons[0]

---------------------------------------------------------------------------
(* Properties of the axis ordinals.                                        *)

---------------------------------------------------------------------------
(* Properties of the free slots.                                           *)

\* C32: in every reachable state a slot that is connected holds a device
\* handle.  The handles of the events are not null.
C32_ConnectedIsOccupied ==
    \A i \in Slots : joysticks[i].m_state.connected => Occupied(joysticks[i])

\* A poll-backed device that a tick had refreshed has just departed: its
\* slot is free and not connected.
C32_Witness ==
    /\ ev.kind = "departed"
    /\ ev.slot # NoSlot
    /\ ev.token # NullHandle
    /\ joysticks[ev.slot].m_xInputPacketNumber # 0
    /\ ~Occupied(joysticks[ev.slot])
    /\ ~joysticks[ev.slot].m_state.connected

\* C33: a tick changes no slot that is free and no slot that is
\* report-backed: it writes to occupied poll-backed slots only.
C33_TickWritesPollBackedOnly ==
    [][ev'.kind = "tick" =>
          \A i \in Slots :
              ~PollBacked(joysticks[i]) => joysticks'[i] = joysticks[i]]_vars

---------------------------------------------------------------------------
(* Properties of the events for a token.                                   *)

\* C34: a departure and a raw report for a token that no slot holds leave
\* the whole registry as it was, and the departure of a token that a slot
\* holds changes that slot only.
C34_UnheldTokenChangesNothing ==
    [][/\ (ev'.kind \in {"departed", "report"} /\ ~Holds(joysticks, ev'.token))
            => joysticks' = joysticks
       /\ (ev'.kind = "departed" /\ Holds(joysticks, ev'.token))
            => \A i \in Slots \ {FindSlot(joysticks, ev'.token)} :
                   joysticks'[i] = joysticks[i]]_vars

\* A held token has departed while another slot stays occupied and
\* connected.
C34_Witness ==
    /\ ev.kind = "departed"
    /\ ev.slot # NoSlot
    /\ ~Occupied(joysticks[ev.slot])
    /\ \E i \in Slots \ {ev.slot} :
           Occupied(joysticks[i]) /\ joysticks[i].m_state.connected

\* C35: a raw report for a token held by a poll-backed slot changes neither
\* that slot nor any other slot, whatever the report holds.
C35_ReportForPollBackedIsIgnored ==
    [][(/\ ev'.kind = "report"
        /\ Holds(joysticks, ev'.token)
        /\ PollBacked(joysticks[FindSlot(joysticks, ev'.token)]))
          => joysticks' = joysticks]_vars

\* A raw report in which every query succeeds and buttons are down has
\* arrived for a token that a poll-backed slot holds.
C35_Witness ==
    /\ ev.kind = "report"
    /\ ev.slot # NoSlot
    /\ PollBacked(joysticks[ev.slot])
    /\ joysticks[ev.slot].m_lastDeviceHandle = ev.token
    /\ ev.arg.fail = NoFailure
    /\ \E k \in DOMAIN ev.arg.report.usages : ev.arg.report.usages[k] # <<>>

---------------------------------------------------------------------------
(* Properties of a descriptor with several button ranges.                  *)

\* The button that usage number n of range k stands for: the sizes of the
\* ranges before k, plus the offset of the usage in its own range.
ButtonOfUsage(desc, report, k, n) ==
    SumButtons(SubSeq(desc.buttonCaps, 1, k - 1))
        + (report.usages[k][n] - desc.buttonCaps[k].UsageMin)

\* C36: for a descriptor with two or more button ranges, after a decoded
\* report a button is down exactly when a usage of some range stands for
\* it: the buttons of a later range are not lost.
C36_ButtonsOfLaterRanges ==
    (DecodedReport /\ Len(ev.arg.desc.buttonCaps) >= 2) =>
        \A b \in Buttons :
            joysticks[ev.slot].m_state.buttons[b]
                <=> \E k \in DOMAIN ev.arg.desc.buttonCaps :
                        \E n \in DOMAIN ev.arg.report.usages[k] :
                            b = ButtonOfUsage(ev.arg.desc, ev.arg.report, k, n)

---------------------------------------------------------------------------
(* Properties of the connection by a report.                               *)

\* C37: after a report in which every query succeeded the report-backed
\* slot that holds the device is connected, whatever the descriptor
\* declares, a descriptor with buttons and no value range included.
C37_DecodedReportConnects ==
    DecodedReport => joysticks[ev.slot].m_state.connected

---------------------------------------------------------------------------
(* Properties of an arrival followed by the departure.                     *)

\* C38: when a token that no slot holds arrives and is stored in a free
\* slot, the departure of the same token right after it gives back the
\* registry of before the arrival: index, backend, poll index, packet
\* number, identification, capabilities and state of every slot.  The
\* registry after the departure is Removed of the registry after the
\* arrival.
C38_ArrivalThenDepartureRestores ==
    [][(/\ ev'.kind = "arrived"
        /\ ev'.slot # NoSlot
        /\ ~Holds(joysticks, ev'.token))
          => Removed(joysticks', ev'.token) = joysticks]_vars

---------------------------------------------------------------------------
(* Properties of the refresh of the poll-backed slots.                     *)

\* C39: a tick skips no occupied poll-backed slot: the poll index of the
\* slot is one of the indexes the tick polls, and when the snapshot at
\* that index is present with a packet number other than the one the slot
\* has stored, the slot stores the packet number of the snapshot.
C39_NoPollBackedSlotIsSkipped ==
    [][ev'.kind = "tick" =>
          \A i \in DOMAIN joysticks :
              PollBacked(joysticks[i]) =>
                  /\ joysticks[i].m_xInputIndex \in XInputIndexes
                  /\ (/\ ev'.arg[joysticks[i].m_xInputIndex].present
                      /\ ev'.arg[joysticks[i].m_xInputIndex].dwPacketNumber
                             # joysticks[i].m_xInputPacketNumber)
                        => joysticks'[i].m_xInputPacketNumber
                               = ev'.arg[joysticks[i].m_xInputIndex].dwPacketNumber]_vars

=============================================================================
